---- MODULE Spec2Model ----
(***************************************************************************)
(* Verification model of the aibal plugin host (src-tauri).                *)
(*                                                                         *)
(* Each subsystem is a group of variables with its own next-state relation *)
(* and specification:                                                      *)
(*   SpecSched     reliability/scheduler.rs    TaskScheduler               *)
(*   SpecTimer     plugin/sandbox/timer.rs     TimerRegistry               *)
(*   SpecAlert     plugin/monitoring/alert.rs  AlertManager                *)
(*   SpecBus       plugin/event_bus.rs         EventBus and its dispatcher *)
(*   SpecSeverity  plugin/monitoring/alert.rs  the severity of an alert    *)
(*   SpecLife      plugin/lifecycle.rs         PluginManager: load, reload *)
(*   SpecUnload    plugin/lifecycle.rs         disable, uninstall, shutdown*)
(*   SpecExec      plugin/lifecycle.rs         refresh of a plugin         *)
(*   SpecCall      plugin/permission.rs        cross-plugin call checks    *)
(*   SpecHealth    plugin/lifecycle.rs         health of a PluginInstance  *)
(*   SpecPriority  reliability/scheduler.rs    queue order, all priorities *)
(*   SpecReload    plugin/lifecycle.rs         reload while events flow    *)
(*   SpecFetch     plugin/sandbox/fetch.rs     requests and their guards   *)
(*   SpecFetchManager  plugin/sandbox/fetch.rs the request counter alone   *)
(*   SpecWatchdog  plugin/runtime.rs           run_with_limits, Watchdog   *)
(*   SpecCacheSeq  reliability/cache.rs        CacheLayer, calls in turn   *)
(*   SpecExtract   security/extractor.rs       SecureExtractor::extract    *)
(*   SpecRetry     reliability/retry.rs        RetryExecutor               *)
(*   SpecCache     reliability/cache.rs        CacheLayer, calls interleave*)
(*   SpecRate      reliability/rate_limiter.rs RateLimiter                 *)
(*   SpecBusLocks  plugin/event_bus.rs         the locks of the EventBus   *)
(*   SpecReloadUninstall  plugin/lifecycle.rs  reload beside uninstall     *)
(* SpecSchedLive and SpecTimerLive add the fairness of the tokio runtime,  *)
(* SpecSchedShutdown adds shutdown to SpecSchedLive; SpecWatchdog and      *)
(* SpecReload carry their fairness.                                        *)
(***************************************************************************)
EXTENDS Integers, Sequences, FiniteSets, TLC

\* ------------------------------------------------------------------------
\* Bounds of the model
\* ------------------------------------------------------------------------
\* largest max_concurrent a scheduler is configured with
MaxConcurrentBound == 1
\* largest max_queue_size a scheduler is configured with
MaxQueueBound == 1
\* number of submit calls made in one run
MaxSubmits == 2
\* number of setTimeout / setInterval calls that create a timer in one run
MaxTimerCalls == 2
\* number of alert checks made in one run
MaxAlertCalls == 2
\* largest cooldown_seconds an alert manager is configured with
MaxCooldown == 1
\* last tick of the clock
MaxTime == 2
\* number of events emitted in one run
MaxEvents == 2
\* number of dispatcher tasks spawned in one run
MaxDispatchers == 1
\* number of plugin manager calls and manifest changes in one run
MaxLifeOps == 3
\* number of record_success / record_failure calls on an instance in one run
MaxRecords == 5
\* number of refresh_plugin calls in one run
MaxRefreshes == 2
\* number of run_with_limits calls on a runtime in one run
MaxRuns == 2
\* number of cache operations called in one run
MaxCacheOps == 3
\* number of extract calls on one target directory in one run
MaxExtracts == 2
\* largest max_retries a retry executor is configured with
MaxRetriesBound == 3
\* largest global_burst a rate limiter is configured with
MaxGlobalBurst == 2
\* largest plugin_burst a rate limiter is configured with
MaxPluginBurst == 1
\* number of rate limiter calls made in one run
MaxRateCalls == 3
\* number of subscribe / unsubscribe calls made in one run of the lock model
MaxBusCalls == 2
\* ------------------------------------------------------------------------
\* Scheduler state (reliability/scheduler.rs)
\* ------------------------------------------------------------------------
VARIABLES
    config,          \* SchedulerConfig: max_concurrent, max_queue_size, enable_priority
    queue,           \* VecDeque<QueuedTask>: sequence of task ids
    semaphore,       \* available permits of the concurrency semaphore
    next_task_id,    \* AtomicU64 id generator
    stats,           \* SchedulerStats counters
    shutdown_token,  \* CancellationToken of the scheduler
    queue_notify,    \* Notify: TRUE when a wake-up permit is stored
    task,            \* per task id: priority, status, cancel token, handle result
    workerPc,        \* position of background_worker
    subPc,           \* position of the caller inside submit_with_options
    subTask,         \* the QueuedTask the caller is building (id, priority)
    submitLog,       \* results of the submit calls, in call order
    shutPc           \* position of the caller inside shutdown

schedVars == <<config, queue, semaphore, next_task_id, stats, shutdown_token,
               queue_notify, task, workerPc, subPc, subTask, submitLog, shutPc>>

\* ------------------------------------------------------------------------
\* Timer registry state (plugin/sandbox/timer.rs)
\* ------------------------------------------------------------------------
VARIABLES
    timer_next_id,   \* TimerRegistry::next_id
    timer_permits,   \* available permits of TimerRegistry::semaphore
    pending_tokens,  \* ids in TimerRegistry::pending_tokens
    timers,          \* ids in TimerRegistry::timers
    tm,              \* per timer created in the run: its spawned task and token
    cancelReq,       \* ids whose clearTimeout task is spawned and has not run
    js_last          \* what the last setTimeout / setInterval call returned

timerVars == <<timer_next_id, timer_permits, pending_tokens, timers, tm,
               cancelReq, js_last>>

\* ------------------------------------------------------------------------
\* Alert manager state (plugin/monitoring/alert.rs)
\* ------------------------------------------------------------------------
VARIABLES
    thresholds,      \* AlertManager::thresholds
    alert_now,       \* the monotonic clock read by Instant::now(), in seconds
    cooldown_map,    \* AlertManager::cooldown_map: key -> Instant of the last alert
    alert_history,   \* AlertManager::history
    alertCaller,     \* per concurrent caller: position inside trigger_alert
    alertCalls       \* number of check_* calls made in the run

alertVars == <<thresholds, alert_now, cooldown_map, alert_history, alertCaller,
               alertCalls>>

\* ------------------------------------------------------------------------
\* Event bus state (plugin/event_bus.rs, plugin/lifecycle.rs)
\* ------------------------------------------------------------------------
VARIABLES
    queue_size,         \* EventBusConfig::queue_size
    subscriptions,      \* EventBus::subscriptions: event name -> set of plugin ids
    handlers,           \* EventBus::handlers: the plugin ids that have a handler
    event_queue,        \* the mpsc channel between event_tx and event_rx
    pending_send,       \* the senders waiting in event_tx.send, oldest first
    bus_stats,          \* EventBus::stats
    dispatcher_handle,  \* PluginManager::dispatcher_handle: task id, 0 for None
    dtask,              \* the dispatcher tasks spawned so far, with their locals
    last_started,       \* the event whose handler was called last
    emitted             \* number of events created so far

busVars == <<queue_size, subscriptions, handlers, event_queue, pending_send, bus_stats,
             dispatcher_handle, dtask, last_started, emitted>>

\* what a step of the plugin manager leaves alone on the bus besides the
\* subscriptions, the statistics and the handlers
busRest == <<queue_size, event_queue, pending_send, dispatcher_handle, dtask,
             last_started, emitted>>

\* ------------------------------------------------------------------------
\* Plugin manager state (plugin/lifecycle.rs, permission.rs, config.rs)
\* ------------------------------------------------------------------------
VARIABLES
    disk,         \* the manifest.json of each plugin directory
    plugins,      \* PluginManager::plugins: plugin id -> PluginInstance
    permissions,  \* PermissionChecker::permissions: plugin id -> set of Permission
    methods,      \* MethodRegistry::methods: the (plugin id, method name) keys
    schemas,      \* ConfigManager::schemas: plugin id -> ConfigSchema
    rl,           \* per caller of reload_plugin: its position and locals
    life_ops,     \* number of plugin manager calls and file changes of the run
    un,           \* the caller of uninstall_plugin: its position and locals
    sd,           \* the caller of shutdown: its position
    call_disp,    \* call_dispatcher_handle, call_rx and the call dispatcher task
    life_ret      \* the last return of enable_plugin, disable_plugin,
                  \* uninstall_plugin or shutdown

mgrVars == <<un, sd, call_disp, life_ret>>

lifeVars == <<disk, plugins, permissions, methods, schemas, rl, life_ops, mgrVars>>

\* ------------------------------------------------------------------------
\* Cross-plugin call state (plugin/permission.rs)
\* ------------------------------------------------------------------------
VARIABLES
    vc,           \* the caller of validate_call / check_call_permission: its
                  \* position, arguments and result
    call_stack,   \* CallStack::stack of the call chain in progress
    push_result   \* what the last CallStack::push returned

callVars == <<vc, call_stack, push_result>>

\* ------------------------------------------------------------------------
\* Health statistics of one plugin instance (plugin/lifecycle.rs)
\* ------------------------------------------------------------------------
VARIABLES
    inst,         \* the health fields of a PluginInstance
    inst_status,  \* the status to_health reports for it
    calls         \* the record_success / record_failure calls made on it

healthVars == <<inst, inst_status, calls>>

\* ------------------------------------------------------------------------
\* Refresh state (commands/ipc.rs, plugin/lifecycle.rs execute_fetch_data)
\* ------------------------------------------------------------------------
VARIABLES
    rf,           \* the caller of refresh_plugin: its position, locals and result
    ui_events,    \* the events emitted to the front end, as (event, plugin id)
    refreshes     \* number of refresh_plugin calls of the run

execVars == <<rf, ui_events, refreshes>>

\* ------------------------------------------------------------------------
\* Fetch manager state (plugin/sandbox/fetch.rs)
\* ------------------------------------------------------------------------
VARIABLES
    fm,           \* RequestManager: client and active_requests
    ft,           \* the callers of the manager: position, locals, guard, result
    fetch_bg      \* guards held by requests of other callers at their send().await

fetchVars == <<fm, ft, fetch_bg>>

\* ------------------------------------------------------------------------
\* Sandbox runtime state (plugin/runtime.rs)
\* ------------------------------------------------------------------------
VARIABLES
    ic,           \* InterruptController: interrupted, start_time_ms set
    rw,           \* the caller of run_with_limits: position, locals, result
    wdog,         \* the watchdog task spawned by each run_with_limits call
    runs          \* number of run_with_limits calls of the run

wdVars == <<ic, rw, wdog, runs>>

\* ------------------------------------------------------------------------
\* Cache layer state (reliability/cache.rs)
\* ------------------------------------------------------------------------
VARIABLES
    cache,        \* the moka cache: key string -> value
    plugin_keys,  \* the reverse index: plugin id -> set of key strings
    cc,           \* the callers of the layer: position and arguments
    cdone,        \* the call that returned last, with the cache it started from
    cache_ops     \* number of operations called in the run

cacheVars == <<cache, plugin_keys, cc, cdone, cache_ops>>

\* ------------------------------------------------------------------------
\* Extractor state (security/extractor.rs)
\* ------------------------------------------------------------------------
VARIABLES
    target_dir,   \* what the target directory holds
    backups,      \* what <target>.backup.1 .. <target>.backup.N hold
    temp_dir,     \* what the TempDir of the extraction in progress holds
    ex,           \* the caller of extract: position, archive, result
    extracts      \* number of extract calls of the run

extractVars == <<target_dir, backups, temp_dir, ex, extracts>>

\* ------------------------------------------------------------------------
\* Retry executor state (reliability/retry.rs)
\* ------------------------------------------------------------------------
VARIABLES
    retry_config, \* RetryConfig, the delays in milliseconds
    rc,           \* the caller of execute_with_context: position, attempt,
                  \* what the operation returned so far, the delay, the result
    retry_stats   \* RetryStats

retryVars == <<retry_config, rc, retry_stats>>

\* ------------------------------------------------------------------------
\* Rate limiter state (reliability/rate_limiter.rs)
\* ------------------------------------------------------------------------
VARIABLES
    rate_config,     \* RateLimitConfig: the two burst capacities
    global,          \* cells left in the global bucket
    limiters,        \* every PluginLimiter made so far: its bucket and statistics
    plugin_limiters, \* plugin id |-> its limiter in `limiters`, or NoLimiter
    rate_stats,      \* RateLimiterStats
    rq,              \* the callers of check and until_ready
    rate_calls       \* number of calls made so far

rateVars == <<rate_config, global, limiters, plugin_limiters, rate_stats, rq, rate_calls>>

\* ------------------------------------------------------------------------
\* Event bus locks (plugin/event_bus.rs)
\* ------------------------------------------------------------------------
VARIABLES
    bus_locks, \* the task that holds the RwLock of subscriptions, handlers, stats
    bc,        \* the callers of subscribe, unsubscribe_all, unsubscribe_only
    bus_calls  \* number of such calls made so far

lockVars == <<bus_locks, bc, bus_calls>>

\* the state of the utilities around the plugin host
utilVars == <<fetchVars, wdVars, cacheVars, extractVars, retryVars, rateVars, lockVars>>

vars == <<schedVars, timerVars, alertVars, busVars, lifeVars, callVars, healthVars,
         execVars, utilVars>>

\* the state of the plugin host proper
coreVars == <<schedVars, timerVars, alertVars, busVars, lifeVars, callVars, healthVars,
             execVars>>

nonSchedVars == <<timerVars, alertVars, busVars, lifeVars, callVars, healthVars, execVars, utilVars>>
nonTimerVars == <<schedVars, alertVars, busVars, lifeVars, callVars, healthVars, execVars, utilVars>>
nonAlertVars == <<schedVars, timerVars, busVars, lifeVars, callVars, healthVars, execVars, utilVars>>
nonBusVars == <<schedVars, timerVars, alertVars, lifeVars, callVars, healthVars, execVars, utilVars>>
nonLifeVars == <<schedVars, timerVars, alertVars, callVars, healthVars, execVars, utilVars>>
nonCallVars == <<schedVars, timerVars, alertVars, busVars, healthVars, execVars, utilVars>>
nonHealthVars == <<schedVars, timerVars, alertVars, busVars, lifeVars, callVars, execVars, utilVars>>
nonExecVars == <<schedVars, timerVars, alertVars, busVars, callVars, healthVars, utilVars>>
nonFetchVars == <<coreVars, wdVars, cacheVars, extractVars, retryVars, rateVars, lockVars>>
nonWdVars == <<coreVars, fetchVars, cacheVars, extractVars, retryVars, rateVars, lockVars>>
nonCacheVars == <<coreVars, fetchVars, wdVars, extractVars, retryVars, rateVars, lockVars>>
nonExtractVars == <<coreVars, fetchVars, wdVars, cacheVars, retryVars, rateVars, lockVars>>
nonRetryVars == <<coreVars, fetchVars, wdVars, cacheVars, extractVars, rateVars, lockVars>>
nonRateVars == <<coreVars, fetchVars, wdVars, cacheVars, extractVars, retryVars, lockVars>>
\* what a step of the event bus that takes a lock leaves alone
nonBusLockVars == <<schedVars, timerVars, alertVars, lifeVars, callVars, healthVars, execVars, fetchVars, wdVars, cacheVars, extractVars, retryVars, rateVars>>

TaskIds == 1..MaxSubmits

\* TaskPriority: Low = 0, Normal = 1, High = 2, Critical = 3
Low == 0
Normal == 1
High == 2
Critical == 3
TaskPriority == {Normal, High}

NoTask == [id |-> 0, priority |-> Normal]

\* AtomicUsize::fetch_sub / fetch_add wrap around; UsizeWrapped stands for
\* the value 0 - 1 wraps to (usize::MAX).
UsizeWrapped == -1
FetchSub(x) == IF x = 0 THEN UsizeWrapped ELSE x - 1
FetchAdd(x) == IF x = UsizeWrapped THEN 0 ELSE x + 1

\* a task: future is what its future did when execute_task polled it
InitTask == [priority |-> Normal, status |-> "new", cancelled |-> FALSE,
             future |-> "pending", result |-> "None"]

InitStats == [total_submitted |-> 0, total_completed |-> 0, total_cancelled |-> 0,
              total_timeout |-> 0, total_failed |-> 0, total_panicked |-> 0,
              active_count |-> 0, queue_length |-> 0]

\* TaskScheduler::new
InitSched ==
    /\ config \in [max_concurrent : 1..MaxConcurrentBound,
                   max_queue_size : 1..MaxQueueBound,
                   enable_priority : BOOLEAN]
    /\ queue = << >>
    /\ semaphore = config.max_concurrent
    /\ next_task_id = 1
    /\ stats = InitStats
    /\ shutdown_token = FALSE
    /\ queue_notify = FALSE
    /\ task = [t \in TaskIds |-> InitTask]
    /\ workerPc = "loop"
    /\ subPc = "idle"
    /\ subTask = NoTask
    /\ submitLog = << >>
    /\ shutPc = "idle"

\* InsertPos with the comparison t.priority <= priority: the new task goes in
\* front of the queued tasks of its own priority
InsertPos_BeforeEqual(q, priority) ==
    LET lower == {i \in 1..Len(q) : task[q[i]].priority <= priority}
    IN IF lower = {} THEN Len(q) + 1
       ELSE CHOOSE i \in lower : \A j \in lower : i <= j

\* queue.iter().position(|t| t.priority < priority).unwrap_or(queue.len()),
\* as a 1-based index of the element the new task is inserted before
InsertPos(q, priority) ==
    LET lower == {i \in 1..Len(q) : task[q[i]].priority < priority}
    IN IF lower = {} THEN Len(q) + 1
       ELSE CHOOSE i \in lower : \A j \in lower : i <= j

\* VecDeque::insert(pos, task)
InsertAt(q, pos, t) ==
    SubSeq(q, 1, pos - 1) \o <<t>> \o SubSeq(q, pos, Len(q))

\* submit_with_options, up to taking the task id: the shutdown check and
\* next_task_id.fetch_add
SubmitBegin(priority) ==
    /\ UNCHANGED nonSchedVars
    /\ subPc = "idle"
    /\ Len(submitLog) < MaxSubmits
    /\ IF shutdown_token
       THEN /\ submitLog' = Append(submitLog, "Shutdown")
            /\ UNCHANGED <<next_task_id, subPc, subTask>>
       ELSE /\ subTask' = [id |-> next_task_id, priority |-> priority]
            /\ next_task_id' = next_task_id + 1
            /\ subPc' = "lock"
            /\ UNCHANGED submitLog
    /\ UNCHANGED <<config, queue, semaphore, stats, shutdown_token, queue_notify,
                   task, workerPc, shutPc>>

\* submit_with_options, the block holding the queue lock: capacity check and
\* insertion
SubmitEnqueue ==
    /\ UNCHANGED nonSchedVars
    /\ subPc = "lock"
    /\ IF Len(queue) >= config.max_queue_size
       THEN /\ submitLog' = Append(submitLog, "QueueFull")
            /\ subPc' = "idle"
            /\ subTask' = NoTask
            /\ UNCHANGED <<queue, task>>
       ELSE /\ task' = [task EXCEPT ![subTask.id].priority = subTask.priority,
                                    ![subTask.id].status = "queued"]
            /\ queue' = IF config.enable_priority
                        THEN InsertAt(queue, InsertPos(queue, subTask.priority), subTask.id)
                        ELSE Append(queue, subTask.id)
            /\ subPc' = "count"
            /\ UNCHANGED <<submitLog, subTask>>
    /\ UNCHANGED <<config, semaphore, next_task_id, stats, shutdown_token,
                   queue_notify, workerPc, shutPc>>

\* SubmitFinish without the notify_one
SubmitFinish_NoNotify ==
    /\ UNCHANGED nonSchedVars
    /\ subPc = "count"
    /\ stats' = [stats EXCEPT !.total_submitted = @ + 1,
                              !.queue_length = FetchAdd(@)]
    /\ submitLog' = Append(submitLog, "Ok")
    /\ subPc' = "idle"
    /\ subTask' = NoTask
    /\ UNCHANGED <<config, queue, semaphore, next_task_id, shutdown_token, task,
                   workerPc, shutPc, queue_notify>>

\* submit_with_options after the lock is released: the statistics, notify_one
\* and the returned handle
SubmitFinish ==
    /\ UNCHANGED nonSchedVars
    /\ subPc = "count"
    /\ stats' = [stats EXCEPT !.total_submitted = @ + 1,
                              !.queue_length = FetchAdd(@)]
    /\ queue_notify' = TRUE
    /\ submitLog' = Append(submitLog, "Ok")
    /\ subPc' = "idle"
    /\ subTask' = NoTask
    /\ UNCHANGED <<config, queue, semaphore, next_task_id, shutdown_token, task,
                   workerPc, shutPc>>

\* background_worker: the shutdown check at the top of the loop
WorkerLoop ==
    /\ UNCHANGED nonSchedVars
    /\ workerPc = "loop"
    /\ workerPc' = IF shutdown_token THEN "exit" ELSE "check"
    /\ UNCHANGED <<config, queue, semaphore, next_task_id, stats, shutdown_token,
                   queue_notify, task, subPc, subTask, submitLog, shutPc>>

\* background_worker: has_task
WorkerCheck ==
    /\ UNCHANGED nonSchedVars
    /\ workerPc = "check"
    /\ workerPc' = IF queue = << >> THEN "wait" ELSE "acquire"
    /\ UNCHANGED <<config, queue, semaphore, next_task_id, stats, shutdown_token,
                   queue_notify, task, subPc, subTask, submitLog, shutPc>>

\* background_worker: select! { biased; shutdown.cancelled(), notify.notified() }
WorkerWait ==
    /\ UNCHANGED nonSchedVars
    /\ workerPc = "wait"
    /\ \/ /\ shutdown_token
          /\ workerPc' = "exit"
          /\ UNCHANGED queue_notify
       \/ /\ ~shutdown_token
          /\ queue_notify
          /\ queue_notify' = FALSE
          /\ workerPc' = "loop"
    /\ UNCHANGED <<config, queue, semaphore, next_task_id, stats, shutdown_token,
                   task, subPc, subTask, submitLog, shutPc>>

\* WorkerAcquire that does not wait for a free permit
WorkerAcquire_NoWait ==
    /\ UNCHANGED nonSchedVars
    /\ workerPc = "acquire"
    /\ \/ /\ shutdown_token
          /\ workerPc' = "exit"
          /\ UNCHANGED semaphore
       \/ /\ ~shutdown_token
          /\ semaphore' = IF semaphore > 0 THEN semaphore - 1 ELSE 0
          /\ workerPc' = "pop"
    /\ UNCHANGED <<config, queue, next_task_id, stats, shutdown_token, queue_notify,
                   task, subPc, subTask, submitLog, shutPc>>

\* background_worker: select! { biased; shutdown.cancelled(), acquire_owned() }
WorkerAcquire ==
    /\ UNCHANGED nonSchedVars
    /\ workerPc = "acquire"
    /\ \/ /\ shutdown_token
          /\ workerPc' = "exit"
          /\ UNCHANGED semaphore
       \/ /\ ~shutdown_token
          /\ semaphore > 0
          /\ semaphore' = semaphore - 1
          /\ workerPc' = "pop"
    /\ UNCHANGED <<config, queue, next_task_id, stats, shutdown_token, queue_notify,
                   task, subPc, subTask, submitLog, shutPc>>

\* background_worker: pop_front, the counters and the spawn of the task
WorkerPop ==
    /\ UNCHANGED nonSchedVars
    /\ workerPc = "pop"
    /\ IF queue = << >>
       THEN /\ semaphore' = semaphore + 1
            /\ UNCHANGED <<queue, stats, task>>
       ELSE /\ queue' = Tail(queue)
            /\ stats' = [stats EXCEPT !.queue_length = FetchSub(@),
                                      !.active_count = FetchAdd(@)]
            /\ task' = [task EXCEPT ![Head(queue)].status = "running"]
            /\ UNCHANGED semaphore
    /\ workerPc' = "loop"
    /\ UNCHANGED <<config, next_task_id, shutdown_token, queue_notify, subPc,
                   subTask, submitLog, shutPc>>

\* what the future of a task does when it is polled under its timeout
Behaviours == {"returns", "hangs", "panics"}

\* execute_task: the result of the select!, biased towards the cancel token;
\* catch_unwind turns a panic of the future into Err(TaskPanic)
execute_task_result(cancelled, behaviour) ==
    IF cancelled THEN "Cancelled"
    ELSE CASE behaviour = "returns" -> "Ok"
           [] behaviour = "hangs" -> "Timeout"
           [] behaviour = "panics" -> "TaskPanic"

\* execute_task without catch_unwind: the panic unwinds the spawned task,
\* which drops result_tx (await_result then yields Cancelled) and the permit
\* and skips the statistics and notify_one
ExecuteTask_NoCatchUnwind(t) ==
    /\ UNCHANGED nonSchedVars
    /\ task[t].status = "running"
    /\ \E b \in Behaviours :
          IF ~task[t].cancelled /\ b = "panics"
          THEN /\ task' = [task EXCEPT ![t].status = "done", ![t].future = b,
                                       ![t].result = "Cancelled"]
               /\ semaphore' = semaphore + 1
          ELSE /\ task' = [task EXCEPT ![t].status = "sent",
                              ![t].future = IF task[t].cancelled THEN @ ELSE b,
                              ![t].result = IF @ = "None"
                                            THEN execute_task_result(task[t].cancelled, b)
                                            ELSE @]
               /\ UNCHANGED semaphore
    /\ UNCHANGED <<config, queue, next_task_id, stats, shutdown_token,
                   queue_notify, workerPc, subPc, subTask, submitLog, shutPc>>

\* execute_task: the select! over the cancel token and the timed future, and
\* result_tx.send
ExecuteTask(t) ==
    /\ UNCHANGED nonSchedVars
    /\ task[t].status = "running"
    /\ \E b \in Behaviours :
          task' = [task EXCEPT ![t].status = "sent",
                               ![t].future = IF task[t].cancelled THEN @ ELSE b,
                               ![t].result = IF @ = "None"
                                             THEN execute_task_result(task[t].cancelled, b)
                                             ELSE @]
    /\ UNCHANGED <<config, queue, semaphore, next_task_id, stats, shutdown_token,
                   queue_notify, workerPc, subPc, subTask, submitLog, shutPc>>

\* the counter the spawned closure increments for a result
StatsField(r) ==
    CASE r = "Ok" -> "total_completed"
      [] r = "Cancelled" -> "total_cancelled"
      [] r = "Timeout" -> "total_timeout"
      [] r = "TaskPanic" -> "total_panicked"
      [] OTHER -> "total_failed"

\* the closure spawned by background_worker, after execute_task returns:
\* statistics, drop(permit), notify_one
TaskRelease(t) ==
    /\ UNCHANGED nonSchedVars
    /\ task[t].status = "sent"
    /\ task' = [task EXCEPT ![t].status = "done"]
    /\ stats' = [stats EXCEPT ![StatsField(task[t].result)] = @ + 1,
                              !.active_count = FetchSub(@)]
    /\ semaphore' = semaphore + 1
    /\ queue_notify' = TRUE
    /\ UNCHANGED <<config, queue, next_task_id, shutdown_token, workerPc, subPc,
                   subTask, submitLog, shutPc>>

\* TaskHandle::cancel
HandleCancel(t) ==
    /\ UNCHANGED nonSchedVars
    /\ task[t].status \in {"queued", "running"}
    /\ ~task[t].cancelled
    /\ task' = [task EXCEPT ![t].cancelled = TRUE]
    /\ UNCHANGED <<config, queue, semaphore, next_task_id, stats, shutdown_token,
                   queue_notify, workerPc, subPc, subTask, submitLog, shutPc>>

\* shutdown: shutdown_token.cancel()
ShutdownCancel ==
    /\ UNCHANGED nonSchedVars
    /\ shutPc = "idle"
    /\ shutdown_token' = TRUE
    /\ shutPc' = "drain"
    /\ UNCHANGED <<config, queue, semaphore, next_task_id, stats, queue_notify,
                   task, workerPc, subPc, subTask, submitLog>>

\* shutdown: queue.drain(..), cancelling each task and sending Err(Shutdown)
ShutdownDrain ==
    /\ UNCHANGED nonSchedVars
    /\ shutPc = "drain"
    /\ task' = [t \in TaskIds |->
                  IF \E i \in 1..Len(queue) : queue[i] = t
                  THEN [task[t] EXCEPT !.cancelled = TRUE, !.status = "drained",
                                       !.result = "Shutdown"]
                  ELSE task[t]]
    /\ queue' = << >>
    /\ shutPc' = "done"
    /\ UNCHANGED <<config, semaphore, next_task_id, stats, shutdown_token,
                   queue_notify, workerPc, subPc, subTask, submitLog>>

NextSched ==
    \/ \E p \in TaskPriority : SubmitBegin(p)
    \/ SubmitEnqueue
    \/ SubmitFinish
    \/ WorkerLoop
    \/ WorkerCheck
    \/ WorkerWait
    \/ WorkerAcquire
    \/ WorkerPop
    \/ \E t \in TaskIds : ExecuteTask(t)
    \/ \E t \in TaskIds : TaskRelease(t)
    \/ \E t \in TaskIds : HandleCancel(t)
    \/ ShutdownCancel
    \/ ShutdownDrain

\* ------------------------------------------------------------------------
\* Timer registry (plugin/sandbox/timer.rs)
\* ------------------------------------------------------------------------
\* const MAX_TIMERS
MAX_TIMERS == 100

\* a timer task spawned by set_timeout / set_interval
NewTimer(is_interval) ==
    [is_interval |-> is_interval,
     pc |-> "spawned",         \* position of the spawned task
     token |-> FALSE,          \* cancel_token.is_cancelled()
     permit |-> "task",        \* who owns the permit: task, entry, released
     registered |-> "none",    \* what register returned: none, true, false
     sawPending |-> FALSE,     \* a cancel removed the token from pending_tokens
     cancelRan |-> FALSE,      \* a cancel(id) call has returned
     swept |-> FALSE,          \* cancel_all took the token or the entry
     fired |-> FALSE]          \* the sleep of a one-shot timer elapsed

TimerIds == DOMAIN tm

\* the ids a fresh registry hands out in a run
RunTimerIds == 1..MaxTimerCalls

\* TimerRegistry::new, followed by `preloaded` setInterval calls whose tasks
\* have all registered (ids 1..preloaded are ticking intervals)
InitTimerWith(preloaded) ==
    /\ timer_next_id = preloaded + 1
    /\ timer_permits = MAX_TIMERS - preloaded
    /\ pending_tokens = {}
    /\ timers = 1..preloaded
    /\ tm = << >>
    /\ cancelReq = {}
    /\ js_last = "none"

\* the registry as constructed, or one timer short of the limit
InitTimer == \E preloaded \in {0, MAX_TIMERS - 1} : InitTimerWith(preloaded)

\* set_timeout / set_interval that spawns without looking at the semaphore
SetTimer_NoLimit(is_interval) ==
    /\ UNCHANGED nonTimerVars
    /\ Cardinality(TimerIds) < MaxTimerCalls
    /\ timer_permits' = timer_permits - 1
    /\ timer_next_id' = timer_next_id + 1
    /\ pending_tokens' = pending_tokens \cup {timer_next_id}
    /\ tm' = tm @@ (timer_next_id :> NewTimer(is_interval))
    /\ js_last' = "id"
    /\ UNCHANGED <<timers, cancelReq>>

\* set_timeout / set_interval: try_acquire (permit, id, pending_tokens.insert)
\* and the spawn of the timer task, or the RangeError thrown into the VM
SetTimer(is_interval) ==
    /\ UNCHANGED nonTimerVars
    /\ Cardinality(TimerIds) < MaxTimerCalls
    /\ IF timer_permits = 0
       THEN /\ js_last' = "RangeError"
            /\ UNCHANGED <<timer_next_id, timer_permits, pending_tokens, tm>>
       ELSE /\ timer_permits' = timer_permits - 1
            /\ timer_next_id' = timer_next_id + 1
            /\ pending_tokens' = pending_tokens \cup {timer_next_id}
            /\ tm' = tm @@ (timer_next_id :> NewTimer(is_interval))
            /\ js_last' = "id"
    /\ UNCHANGED <<timers, cancelReq>>

\* the spawned task: if cancel_token.is_cancelled() { return }
TimerTaskStart(id) ==
    /\ UNCHANGED nonTimerVars
    /\ tm[id].pc = "spawned"
    /\ IF tm[id].token
       THEN /\ tm' = [tm EXCEPT ![id].pc = "done", ![id].permit = "released"]
            /\ timer_permits' = timer_permits + 1
       ELSE /\ tm' = [tm EXCEPT ![id].pc = "register"]
            /\ UNCHANGED timer_permits
    /\ UNCHANGED <<timer_next_id, pending_tokens, timers, cancelReq, js_last>>

\* register that stores the entry without consulting pending_tokens
Register_NoPendingCheck(id) ==
    /\ UNCHANGED nonTimerVars
    /\ tm[id].pc = "register"
    /\ pending_tokens' = pending_tokens \ {id}
    /\ timers' = timers \cup {id}
    /\ tm' = [tm EXCEPT ![id].pc = "wait", ![id].permit = "entry",
                        ![id].registered = "true"]
    /\ UNCHANGED <<timer_permits, timer_next_id, cancelReq, js_last>>

\* register that leaves the token in pending_tokens when it stores the entry
Register_KeepPending(id) ==
    /\ UNCHANGED nonTimerVars
    /\ tm[id].pc = "register"
    /\ IF id \notin pending_tokens
       THEN /\ tm' = [tm EXCEPT ![id].pc = "done", ![id].permit = "released",
                                ![id].registered = "false"]
            /\ timer_permits' = timer_permits + 1
            /\ UNCHANGED timers
       ELSE /\ timers' = timers \cup {id}
            /\ tm' = [tm EXCEPT ![id].pc = "wait", ![id].permit = "entry",
                                ![id].registered = "true"]
            /\ UNCHANGED timer_permits
    /\ UNCHANGED <<timer_next_id, pending_tokens, cancelReq, js_last>>

\* TimerRegistry::register, called by the spawned task; the whole body runs
\* under the timers lock
Register(id) ==
    /\ UNCHANGED nonTimerVars
    /\ tm[id].pc = "register"
    /\ pending_tokens' = pending_tokens \ {id}
    /\ IF id \notin pending_tokens
       THEN /\ tm' = [tm EXCEPT ![id].pc = "done", ![id].permit = "released",
                                ![id].registered = "false"]
            /\ timer_permits' = timer_permits + 1
            /\ UNCHANGED timers
       ELSE /\ timers' = timers \cup {id}
            /\ tm' = [tm EXCEPT ![id].pc = "wait", ![id].permit = "entry",
                                ![id].registered = "true"]
            /\ UNCHANGED timer_permits
    /\ UNCHANGED <<timer_next_id, cancelReq, js_last>>

\* the spawned task: select! { biased; cancelled(), sleep(delay) }; an interval
\* leaves its loop only through the cancelled() branch
TimerWait(id) ==
    /\ UNCHANGED nonTimerVars
    /\ tm[id].pc = "wait"
    /\ \/ /\ tm[id].token
          /\ tm' = [tm EXCEPT ![id].pc = "complete"]
       \/ /\ ~tm[id].token
          /\ ~tm[id].is_interval
          /\ tm' = [tm EXCEPT ![id].pc = "complete", ![id].fired = TRUE]
    /\ UNCHANGED <<timer_next_id, timer_permits, pending_tokens, timers,
                   cancelReq, js_last>>

\* the permits given back when the entries of `ids` are dropped, and their owners
DropEntries(t, ids) ==
    [id \in DOMAIN t |->
        IF id \in ids /\ t[id].permit = "entry"
        THEN [t[id] EXCEPT !.permit = "released"] ELSE t[id]]

\* complete that leaves the entry in the timers map
Complete_KeepEntry(id) ==
    /\ UNCHANGED nonTimerVars
    /\ tm[id].pc = "complete"
    /\ pending_tokens' = pending_tokens \ {id}
    /\ tm' = [tm EXCEPT ![id].pc = "done"]
    /\ UNCHANGED <<timers, timer_permits, timer_next_id, cancelReq, js_last>>

\* TimerRegistry::complete, called by the spawned task
Complete(id) ==
    /\ UNCHANGED nonTimerVars
    /\ tm[id].pc = "complete"
    /\ pending_tokens' = pending_tokens \ {id}
    /\ timers' = timers \ {id}
    /\ timer_permits' = IF id \in timers THEN timer_permits + 1 ELSE timer_permits
    /\ tm' = [DropEntries(tm, {id} \cap timers) EXCEPT ![id].pc = "done"]
    /\ UNCHANGED <<timer_next_id, cancelReq, js_last>>

\* clear_timeout: spawns the task that will call registry.cancel(id).  The
\* plugin clears a timer once: an id never returns to a map after cancel has
\* removed it, so a repeated clearTimeout finds nothing.
ClearTimeout(id) ==
    /\ UNCHANGED nonTimerVars
    /\ id \in TimerIds
    /\ id \notin cancelReq
    /\ ~tm[id].cancelRan
    /\ cancelReq' = cancelReq \cup {id}
    /\ UNCHANGED <<timer_next_id, timer_permits, pending_tokens, timers, tm, js_last>>

\* TimerRegistry::cancel, run by the task clear_timeout spawned; the whole body
\* runs under the timers lock
Cancel(id) ==
    /\ UNCHANGED nonTimerVars
    /\ id \in cancelReq
    /\ cancelReq' = cancelReq \ {id}
    /\ pending_tokens' = pending_tokens \ {id}
    /\ timers' = timers \ {id}
    /\ timer_permits' = IF id \in timers THEN timer_permits + 1 ELSE timer_permits
    /\ tm' = [DropEntries(tm, {id} \cap timers) EXCEPT
                 ![id].token = @ \/ id \in pending_tokens \/ id \in timers,
                 ![id].sawPending = @ \/ id \in pending_tokens,
                 ![id].cancelRan = TRUE]
    /\ UNCHANGED <<timer_next_id, js_last>>

\* TimerRegistry::cancel_all
CancelAll ==
    /\ UNCHANGED nonTimerVars
    /\ pending_tokens \cup timers # {}
    /\ pending_tokens' = {}
    /\ timers' = {}
    /\ timer_permits' = timer_permits + Cardinality(timers)
    /\ tm' = [id \in DOMAIN tm |->
                [DropEntries(tm, timers)[id] EXCEPT
                    !.token = @ \/ id \in pending_tokens \/ id \in timers,
                    !.swept = @ \/ id \in pending_tokens \/ id \in timers]]
    /\ UNCHANGED <<timer_next_id, cancelReq, js_last>>

NextTimer ==
    \/ \E b \in BOOLEAN : SetTimer(b)
    \/ \E id \in TimerIds : TimerTaskStart(id)
    \/ \E id \in TimerIds : Register(id)
    \/ \E id \in TimerIds : TimerWait(id)
    \/ \E id \in TimerIds : Complete(id)
    \/ \E id \in TimerIds : ClearTimeout(id)
    \/ \E id \in TimerIds : Cancel(id)
    \/ CancelAll

\* the steps of the task spawned for timer id
TimerTask(id) ==
    \/ TimerTaskStart(id)
    \/ Register(id)
    \/ TimerWait(id)
    \/ Complete(id)

\* the registry without cancel_all
NextTimerRun ==
    \/ \E b \in BOOLEAN : SetTimer(b)
    \/ \E id \in TimerIds : TimerTaskStart(id)
    \/ \E id \in TimerIds : Register(id)
    \/ \E id \in TimerIds : TimerWait(id)
    \/ \E id \in TimerIds : Complete(id)
    \/ \E id \in TimerIds : ClearTimeout(id)
    \/ \E id \in TimerIds : Cancel(id)

\* Every spawned task (timer tasks and clearTimeout tasks) keeps being polled
\* by the runtime, and the sleep of a one-shot timer elapses.
FairTimer ==
    \A id \in RunTimerIds :
        /\ WF_vars(id \in TimerIds /\ TimerTask(id))
        /\ WF_vars(id \in TimerIds /\ Cancel(id))

\* ------------------------------------------------------------------------
\* Alert manager (plugin/monitoring/alert.rs)
\* ------------------------------------------------------------------------
\* the threads calling the checks concurrently
AlertCallers == {1, 2}
AlertPlugins == {"p1", "p2"}
AlertTypes == {"ConsecutiveFailures", "HighLatency", "LowSuccessRate"}

\* AlertManager::max_history
MAX_HISTORY == 100

\* AlertThresholds::default; the success rate is kept in thousandths
DefaultThresholds ==
    [consecutive_failures |-> 3, high_latency_ms |-> 5000,
     low_success_rate |-> 800, cooldown_seconds |-> 300]

\* the observed values the checks are called with
AlertValues(type) ==
    CASE type = "ConsecutiveFailures" -> {2, 3, 6}
      [] type = "HighLatency" -> {5000, 5001, 10001}
      [] type = "LowSuccessRate" -> {800, 799, 399}

\* the `if` guarding trigger_alert in check_consecutive_failures,
\* check_high_latency and check_low_success_rate
Exceeds(type, value) ==
    CASE type = "ConsecutiveFailures" -> value >= thresholds.consecutive_failures
      [] type = "HighLatency" -> value > thresholds.high_latency_ms
      [] type = "LowSuccessRate" -> value < thresholds.low_success_rate

\* the severity the three checks compute (low_success_rate / 2.0 compared in
\* thousandths: value < t / 2 iff 2 * value < t)
Severity(type, value) ==
    CASE type = "ConsecutiveFailures" ->
            IF value >= thresholds.consecutive_failures * 2 THEN "Critical" ELSE "Warning"
      [] type = "HighLatency" ->
            IF value > thresholds.high_latency_ms * 2 THEN "Critical" ELSE "Warning"
      [] type = "LowSuccessRate" ->
            IF 2 * value < thresholds.low_success_rate THEN "Critical" ELSE "Warning"

IdleCaller == [pc |-> "idle", plugin_id |-> "p1", alert_type |-> "ConsecutiveFailures",
               severity |-> "Warning", value |-> 0, stamp |-> 0]

\* AlertManager::new
InitAlertWith(cooldown) ==
    /\ thresholds = [DefaultThresholds EXCEPT !.cooldown_seconds = cooldown]
    /\ alert_now = 0
    /\ cooldown_map = << >>
    /\ alert_history = << >>
    /\ alertCaller = [c \in AlertCallers |-> IdleCaller]
    /\ alertCalls = 0

InitAlert == \E cooldown \in 1..MaxCooldown : InitAlertWith(cooldown)

\* time passes
AlertTick ==
    /\ UNCHANGED nonAlertVars
    /\ alert_now < MaxTime
    /\ alert_now' = alert_now + 1
    /\ UNCHANGED <<thresholds, cooldown_map, alert_history, alertCaller, alertCalls>>

\* check_consecutive_failures / check_high_latency / check_low_success_rate up
\* to the call of trigger_alert
AlertCheck(c, plugin_id, type, value) ==
    /\ UNCHANGED nonAlertVars
    /\ alertCaller[c].pc = "idle"
    /\ alertCalls < MaxAlertCalls
    /\ alertCalls' = alertCalls + 1
    /\ alertCaller' = [alertCaller EXCEPT ![c] =
          IF Exceeds(type, value)
          THEN [pc |-> "cooldown", plugin_id |-> plugin_id, alert_type |-> type,
                severity |-> Severity(type, value), value |-> value, stamp |-> 0]
          ELSE IdleCaller]
    /\ UNCHANGED <<thresholds, alert_now, cooldown_map, alert_history>>

CooldownKey(c) == <<alertCaller[c].plugin_id, alertCaller[c].alert_type>>

\* the cooldown test of trigger_alert: Some(last_time) with elapsed < cooldown
InCooldown(key) ==
    /\ key \in DOMAIN cooldown_map
    /\ alert_now - cooldown_map[key] < thresholds.cooldown_seconds

\* trigger_alert with the test under a read lock and the update under a later
\* write lock
TriggerCooldown_Split(c) ==
    /\ UNCHANGED nonAlertVars
    /\ \/ /\ alertCaller[c].pc = "cooldown"
          /\ alertCaller' = [alertCaller EXCEPT ![c] =
                IF InCooldown(CooldownKey(c)) THEN IdleCaller
                ELSE [@ EXCEPT !.pc = "insert"]]
          /\ UNCHANGED cooldown_map
       \/ /\ alertCaller[c].pc = "insert"
          /\ cooldown_map' = [k \in DOMAIN cooldown_map \cup {CooldownKey(c)} |->
                                IF k = CooldownKey(c) THEN alert_now ELSE cooldown_map[k]]
          /\ alertCaller' = [alertCaller EXCEPT ![c].pc = "record", ![c].stamp = alert_now]
    /\ UNCHANGED <<thresholds, alert_now, alert_history, alertCalls>>

\* trigger_alert: the critical section under cooldown_map.write() that tests
\* the cooldown and stores Instant::now()
TriggerCooldown(c) ==
    /\ UNCHANGED nonAlertVars
    /\ alertCaller[c].pc = "cooldown"
    /\ IF InCooldown(CooldownKey(c))
       THEN /\ alertCaller' = [alertCaller EXCEPT ![c] = IdleCaller]
            /\ UNCHANGED cooldown_map
       ELSE /\ cooldown_map' = [k \in DOMAIN cooldown_map \cup {CooldownKey(c)} |->
                                  IF k = CooldownKey(c) THEN alert_now ELSE cooldown_map[k]]
            /\ alertCaller' = [alertCaller EXCEPT ![c].pc = "record", ![c].stamp = alert_now]
    /\ UNCHANGED <<thresholds, alert_now, alert_history, alertCalls>>

\* the Alert a caller has built
AlertOf(c) ==
    [alert_type |-> alertCaller[c].alert_type, severity |-> alertCaller[c].severity,
     plugin_id |-> alertCaller[c].plugin_id, value |-> alertCaller[c].value,
     stamp |-> alertCaller[c].stamp]

\* trigger_alert: the block under history.write() (pop_front when full, then
\* push_back), the log line and the notification
TriggerRecord(c) ==
    /\ UNCHANGED nonAlertVars
    /\ alertCaller[c].pc = "record"
    /\ alert_history' = Append(IF Len(alert_history) >= MAX_HISTORY
                               THEN Tail(alert_history) ELSE alert_history,
                               AlertOf(c))
    /\ alertCaller' = [alertCaller EXCEPT ![c] = IdleCaller]
    /\ UNCHANGED <<thresholds, alert_now, cooldown_map, alertCalls>>

NextAlert ==
    \/ AlertTick
    \/ \E c \in AlertCallers, p \in AlertPlugins, ty \in AlertTypes :
          \E v \in AlertValues(ty) : AlertCheck(c, p, ty, v)
    \/ \E c \in AlertCallers : TriggerCooldown(c)
    \/ \E c \in AlertCallers : TriggerRecord(c)

\* the values around the two severity borders of each check: the threshold's
\* neighbour that raises a Warning, and the double (the half, for the success
\* rate) of the threshold with its two neighbours
SeverityValues(type) ==
    CASE type = "ConsecutiveFailures" -> {3, 5, 6, 7}
      [] type = "HighLatency" -> {5001, 9999, 10000, 10001}
      [] type = "LowSuccessRate" -> {799, 401, 400, 399}

\* one caller at a time runs the three checks on values around the borders
NextSeverity ==
    \/ AlertTick
    \/ \E p \in AlertPlugins, ty \in AlertTypes :
          \E v \in SeverityValues(ty) : AlertCheck(1, p, ty, v)
    \/ TriggerCooldown(1)
    \/ TriggerRecord(1)

\* ------------------------------------------------------------------------
\* Event bus (plugin/event_bus.rs) and its dispatcher task
\* (plugin/lifecycle.rs start_dispatcher / stop_dispatcher)
\* ------------------------------------------------------------------------
Plugins == {"p1", "p2"}
NoPlugin == "none"

\* actions a plugin passes to emit
GoodAction == "data_updated"
BadAction == "Data-Updated"
Actions == {GoodAction, BadAction}

\* the classes of the characters of an action
CharClasses(action) ==
    CASE action = GoodAction -> {"lower", "underscore"}
      [] action = BadAction -> {"upper", "lower", "other"}
      [] OTHER -> {}

\* EventBus::is_valid_action
is_valid_action(action) ==
    /\ action # ""
    /\ CharClasses(action) \subseteq {"lower", "digit", "underscore"}

\* an event name, kept as the parts name.split(':') yields
\* QueuedEvent::plugin_event: format!("plugin:{}:{}", plugin_id, action)
PluginEventName(plugin_id, action) == <<"plugin", plugin_id, action>>
\* QueuedEvent::system_event: format!("system:{}", action)
SystemEventName(action) == <<"system", action>>

\* EventPrefix::from_event_name
HasPrefix(name) == name[1] \in {"plugin", "system", "ipc"}

\* EventBus::is_valid_event_name
is_valid_event_name(name) ==
    IF ~HasPrefix(name) THEN FALSE
    ELSE IF name[1] = "plugin"
         THEN Len(name) = 3 /\ name[2] # "" /\ name[3] # ""
         ELSE Len(name) = 2 /\ name[2] # ""

\* the event lists subscribe is called with
EventLists ==
    {{PluginEventName("p1", GoodAction), SystemEventName("refresh_all"),
      <<"plugin", "p1">>, <<"app", "ready">>}}

\* EventBusConfig::default
DefaultQueueSize == 1000

NoEvent == [event_name |-> << >>, source_plugin |-> NoPlugin, seq |-> 0]

\* the locals of dispatch_event
IdleDispatch == [event |-> NoEvent, subscribers |-> {}, handlers_to_call |-> {},
                 current |-> NoPlugin, failures |-> 0]

\* a dispatcher task: where it stands, whether abort was called on it, and
\* the locals of its dispatch_event
NewDispatcher == [pc |-> "unspawned", aborted |-> FALSE, d |-> IdleDispatch]

DispatcherIds == 1..MaxDispatchers

\* EventBus::new and PluginManager::new: no subscription, no handler, an empty
\* channel, no dispatcher task
InitBusWith(size) ==
    /\ queue_size = size
    /\ subscriptions = << >>
    /\ handlers = {}
    /\ event_queue = << >>
    /\ pending_send = << >>
    /\ bus_stats = [events_published |-> 0, events_dispatched |-> 0,
                    dispatch_failures |-> 0, total_subscriptions |-> 0]
    /\ dispatcher_handle = 0
    /\ dtask = [t \in DispatcherIds |-> NewDispatcher]
    /\ last_started = 0
    /\ emitted = 0

InitBus == \E size \in {1, DefaultQueueSize} : InitBusWith(size)

\* subs.values().map(|s| s.len()).sum()
RECURSIVE SumLens(_, _)
SumLens(subs, names) ==
    IF names = {} THEN 0
    ELSE LET n == CHOOSE x \in names : TRUE
         IN Cardinality(subs[n]) + SumLens(subs, names \ {n})

TotalSubscriptions(subs) == SumLens(subs, DOMAIN subs)

\* subs.entry(name).or_insert_with(HashSet::new).insert(plugin_id) for every
\* valid name of the list
SubscribeInto(subs, plugin_id, events) ==
    LET valid == {n \in events : is_valid_event_name(n)}
    IN [n \in DOMAIN subs \cup valid |->
          (IF n \in DOMAIN subs THEN subs[n] ELSE {})
              \cup (IF n \in valid THEN {plugin_id} ELSE {})]

\* subscribers.remove(plugin_id) on every entry, then retain the non-empty ones
UnsubscribeFrom(subs, plugin_id) ==
    [n \in {m \in DOMAIN subs : subs[m] \ {plugin_id} # {}} |-> subs[n] \ {plugin_id}]

\* EventBus::subscribe
subscribe(plugin_id, events) ==
    /\ subscriptions' = SubscribeInto(subscriptions, plugin_id, events)
    /\ bus_stats' = [bus_stats EXCEPT !.total_subscriptions =
                        TotalSubscriptions(subscriptions')]

\* EventBus::unsubscribe_only
unsubscribe_only(plugin_id) ==
    /\ subscriptions' = UnsubscribeFrom(subscriptions, plugin_id)
    /\ bus_stats' = [bus_stats EXCEPT !.total_subscriptions =
                        TotalSubscriptions(subscriptions')]

\* EventBus::unsubscribe_all
unsubscribe_all(plugin_id) ==
    /\ unsubscribe_only(plugin_id)
    /\ handlers' = handlers \ {plugin_id}

\* a caller subscribes a plugin
BusSubscribe(plugin_id, events) ==
    /\ UNCHANGED nonBusVars
    /\ subscribe(plugin_id, events)
    /\ UNCHANGED <<queue_size, handlers, event_queue, pending_send, dispatcher_handle,
                   dtask, last_started, emitted>>

\* a caller removes a plugin's subscriptions and handler
BusUnsubscribeAll(plugin_id) ==
    /\ UNCHANGED nonBusVars
    /\ unsubscribe_all(plugin_id)
    /\ UNCHANGED <<queue_size, event_queue, pending_send, dispatcher_handle,
                   dtask, last_started, emitted>>

\* EventBus::register_handler
register_handler(plugin_id) ==
    /\ UNCHANGED nonBusVars
    /\ plugin_id \notin handlers
    /\ handlers' = handlers \cup {plugin_id}
    /\ UNCHANGED <<queue_size, subscriptions, event_queue, pending_send, bus_stats,
                   dispatcher_handle, dtask, last_started, emitted>>

NewEvent(name, source) ==
    [event_name |-> name, source_plugin |-> source, seq |-> emitted + 1]

\* EventBus::emit_sync: try_send, then the statistics (every section under the
\* statistics lock is one step here, so try_write finds the lock free)
emit_sync(plugin_id, action) ==
    /\ UNCHANGED nonBusVars
    /\ emitted < MaxEvents
    /\ IF ~is_valid_action(action)
       THEN UNCHANGED <<event_queue, bus_stats, emitted>>
       ELSE IF Len(event_queue) >= queue_size \/ pending_send # << >>
       THEN UNCHANGED <<event_queue, bus_stats, emitted>>
       ELSE /\ event_queue' = Append(event_queue,
                                NewEvent(PluginEventName(plugin_id, action), plugin_id))
            /\ emitted' = emitted + 1
            /\ bus_stats' = [bus_stats EXCEPT !.events_published = @ + 1]
    /\ UNCHANGED <<queue_size, subscriptions, handlers, pending_send, dispatcher_handle,
                   dtask, last_started>>

\* EventBus::queue_event: the statistics, then event_tx.send: the event enters
\* the channel at once when it has room and no sender is waiting, and waits
\* in the senders' line otherwise
queue_event(event) ==
    /\ emitted < MaxEvents
    /\ emitted' = emitted + 1
    /\ bus_stats' = [bus_stats EXCEPT !.events_published = @ + 1]
    /\ IF Len(event_queue) < queue_size /\ pending_send = << >>
       THEN /\ event_queue' = Append(event_queue, event)
            /\ UNCHANGED pending_send
       ELSE /\ pending_send' = Append(pending_send, event)
            /\ UNCHANGED event_queue

\* EventBus::emit
emit(plugin_id, action) ==
    /\ UNCHANGED nonBusVars
    /\ IF ~is_valid_action(action)
       THEN UNCHANGED <<event_queue, pending_send, bus_stats, emitted>>
       ELSE queue_event(NewEvent(PluginEventName(plugin_id, action), plugin_id))
    /\ UNCHANGED <<queue_size, subscriptions, handlers, dispatcher_handle,
                   dtask, last_started>>

\* EventBus::emit_system
emit_system(action) ==
    /\ UNCHANGED nonBusVars
    /\ queue_event(NewEvent(SystemEventName(action), NoPlugin))
    /\ UNCHANGED <<queue_size, subscriptions, handlers, dispatcher_handle,
                   dtask, last_started>>

\* a sender waiting in event_tx.send gets the slot a recv freed
SendComplete ==
    /\ UNCHANGED nonBusVars
    /\ pending_send # << >>
    /\ Len(event_queue) < queue_size
    /\ event_queue' = Append(event_queue, Head(pending_send))
    /\ pending_send' = Tail(pending_send)
    /\ UNCHANGED <<queue_size, subscriptions, handlers, bus_stats, dispatcher_handle,
                   dtask, last_started, emitted>>

\* the task that holds the event_rx mutex
RxHolders == {t \in DispatcherIds : dtask[t].pc \in {"recv", "subs", "handlers", "invoke"}}

\* PluginManager::start_dispatcher: nothing when a handle is stored, otherwise
\* spawn_dispatcher and store its handle
start_dispatcher ==
    /\ UNCHANGED nonBusVars
    /\ IF dispatcher_handle # 0
       THEN UNCHANGED <<dispatcher_handle, dtask>>
       ELSE \E t \in DispatcherIds :
               /\ dtask[t].pc = "unspawned"
               /\ \A u \in DispatcherIds : u < t => dtask[u].pc # "unspawned"
               /\ dtask' = [dtask EXCEPT ![t].pc = "lock"]
               /\ dispatcher_handle' = t
    /\ UNCHANGED <<queue_size, subscriptions, handlers, event_queue, pending_send,
                   bus_stats, last_started, emitted>>

\* PluginManager::stop_dispatcher: handle.take() and JoinHandle::abort
stop_dispatcher ==
    /\ UNCHANGED nonBusVars
    /\ dispatcher_handle # 0
    /\ dtask' = [dtask EXCEPT ![dispatcher_handle].aborted = TRUE]
    /\ dispatcher_handle' = 0
    /\ UNCHANGED <<queue_size, subscriptions, handlers, event_queue, pending_send,
                   bus_stats, last_started, emitted>>

\* an aborted task is dropped at a point where it is suspended: its locals,
\* the event it holds and the handler future it awaits go with it, and the
\* event_rx guard is released
DispatcherAborted(t) ==
    /\ UNCHANGED nonBusVars
    /\ dtask[t].aborted
    /\ dtask[t].pc \notin {"unspawned", "dead"}
    /\ dtask' = [dtask EXCEPT ![t].pc = "dead", ![t].d = IdleDispatch]
    /\ UNCHANGED <<queue_size, subscriptions, handlers, event_queue, pending_send,
                   bus_stats, dispatcher_handle, last_started, emitted>>

\* EventBus::start_dispatcher: self.event_rx.lock().await
DispatcherLock(t) ==
    /\ UNCHANGED nonBusVars
    /\ dtask[t].pc = "lock"
    /\ RxHolders = {}
    /\ dtask' = [dtask EXCEPT ![t].pc = "recv"]
    /\ UNCHANGED <<queue_size, subscriptions, handlers, event_queue, pending_send,
                   bus_stats, dispatcher_handle, last_started, emitted>>

\* rx.recv() that hands out the newest event of the channel
DispatcherRecv_Newest(t) ==
    /\ UNCHANGED nonBusVars
    /\ dtask[t].pc = "recv"
    /\ event_queue # << >>
    /\ event_queue' = SubSeq(event_queue, 1, Len(event_queue) - 1)
    /\ dtask' = [dtask EXCEPT ![t].pc = "subs",
                              ![t].d.event = event_queue[Len(event_queue)]]
    /\ UNCHANGED <<queue_size, subscriptions, handlers, pending_send, bus_stats,
                   dispatcher_handle, last_started, emitted>>

\* EventBus::start_dispatcher: rx.recv().await yields the oldest event
DispatcherRecv(t) ==
    /\ UNCHANGED nonBusVars
    /\ dtask[t].pc = "recv"
    /\ event_queue # << >>
    /\ event_queue' = Tail(event_queue)
    /\ dtask' = [dtask EXCEPT ![t].pc = "subs", ![t].d.event = Head(event_queue)]
    /\ UNCHANGED <<queue_size, subscriptions, handlers, pending_send, bus_stats,
                   dispatcher_handle, last_started, emitted>>

\* EventBus::get_subscribers
get_subscribers(event_name) ==
    IF event_name \in DOMAIN subscriptions THEN subscriptions[event_name] ELSE {}

\* EventBus::dispatch_event: get_subscribers and the return when there is none
DispatchSubscribers(t) ==
    /\ UNCHANGED nonBusVars
    /\ dtask[t].pc = "subs"
    /\ LET subscribers == get_subscribers(dtask[t].d.event.event_name)
       IN IF subscribers = {}
          THEN dtask' = [dtask EXCEPT ![t].pc = "recv", ![t].d = IdleDispatch]
          ELSE dtask' = [dtask EXCEPT ![t].pc = "handlers",
                                      ![t].d.subscribers = subscribers]
    /\ UNCHANGED <<queue_size, subscriptions, handlers, event_queue, pending_send,
                   bus_stats, dispatcher_handle, last_started, emitted>>

\* DispatchHandlers that keeps the event's source among the subscribers
DispatchHandlers_KeepSource(t) ==
    /\ UNCHANGED nonBusVars
    /\ dtask[t].pc = "handlers"
    /\ dtask' = [dtask EXCEPT ![t].pc = "invoke",
                              ![t].d.handlers_to_call =
                                  {sub \in dtask[t].d.subscribers : sub \in handlers}]
    /\ UNCHANGED <<queue_size, subscriptions, handlers, event_queue, pending_send,
                   bus_stats, dispatcher_handle, last_started, emitted>>

\* EventBus::dispatch_event: under handlers.read(), drop the event's source from
\* the subscribers and keep those that have a handler
DispatchHandlers(t) ==
    /\ UNCHANGED nonBusVars
    /\ dtask[t].pc = "handlers"
    /\ dtask' = [dtask EXCEPT ![t].pc = "invoke",
                              ![t].d.handlers_to_call =
                                  {sub \in dtask[t].d.subscribers :
                                      /\ dtask[t].d.event.source_plugin # sub
                                      /\ sub \in handlers}]
    /\ UNCHANGED <<queue_size, subscriptions, handlers, event_queue, pending_send,
                   bus_stats, dispatcher_handle, last_started, emitted>>

\* EventBus::dispatch_event: the loop calls the next handler (the subscribers
\* come out of a HashSet, in any order)
HandlerStart(t) ==
    /\ UNCHANGED nonBusVars
    /\ dtask[t].pc = "invoke"
    /\ dtask[t].d.current = NoPlugin
    /\ \E sub \in dtask[t].d.handlers_to_call :
          dtask' = [dtask EXCEPT ![t].d.current = sub,
                                 ![t].d.handlers_to_call = @ \ {sub}]
    /\ last_started' = dtask[t].d.event.seq
    /\ UNCHANGED <<queue_size, subscriptions, handlers, event_queue, pending_send,
                   bus_stats, dispatcher_handle, emitted>>

\* EventBus::dispatch_event: tokio::time::timeout(handler) returns Ok(Ok),
\* Ok(Err) or Err(elapsed)
HandlerEnd(t, result) ==
    /\ UNCHANGED nonBusVars
    /\ dtask[t].pc = "invoke"
    /\ dtask[t].d.current # NoPlugin
    /\ dtask' = [dtask EXCEPT ![t].d.current = NoPlugin,
                              ![t].d.failures = IF result = "ok" THEN @ ELSE @ + 1]
    /\ UNCHANGED <<queue_size, subscriptions, handlers, event_queue, pending_send,
                   bus_stats, dispatcher_handle, last_started, emitted>>

\* EventBus::dispatch_event: the statistics after the last handler, and back
\* to rx.recv()
DispatchStats(t) ==
    /\ UNCHANGED nonBusVars
    /\ dtask[t].pc = "invoke"
    /\ dtask[t].d.current = NoPlugin
    /\ dtask[t].d.handlers_to_call = {}
    /\ bus_stats' = [bus_stats EXCEPT !.events_dispatched = @ + 1,
                                      !.dispatch_failures = @ + dtask[t].d.failures]
    /\ dtask' = [dtask EXCEPT ![t].pc = "recv", ![t].d = IdleDispatch]
    /\ UNCHANGED <<queue_size, subscriptions, handlers, event_queue, pending_send,
                   dispatcher_handle, last_started, emitted>>

NextBus ==
    \/ \E p \in Plugins, events \in EventLists : BusSubscribe(p, events)
    \/ \E p \in Plugins : BusUnsubscribeAll(p)
    \/ \E p \in Plugins : register_handler(p)
    \/ \E p \in Plugins, action \in Actions : emit_sync(p, action)
    \/ \E p \in Plugins, action \in Actions : emit(p, action)
    \/ emit_system("refresh_all")
    \/ SendComplete
    \/ start_dispatcher
    \/ stop_dispatcher
    \/ \E t \in DispatcherIds :
          \/ DispatcherAborted(t)
          \/ DispatcherLock(t)
          \/ DispatcherRecv(t)
          \/ DispatchSubscribers(t)
          \/ DispatchHandlers(t)
          \/ HandlerStart(t)
          \/ \E result \in {"ok", "err", "timeout"} : HandlerEnd(t, result)
          \/ DispatchStats(t)

\* ------------------------------------------------------------------------
\* Health statistics of a PluginInstance (plugin/lifecycle.rs) over its
\* SlidingWindow (plugin/monitoring/sliding_window.rs)
\* ------------------------------------------------------------------------
\* sliding_window::DEFAULT_WINDOW_SIZE
DEFAULT_WINDOW_SIZE == 100

\* the latencies, in ms, a successful call is recorded with
Latencies == {100, 5000, 6000}

\* the health fields of PluginInstance::new
NewHealth ==
    [last_error |-> "none", last_success |-> FALSE, error_count |-> 0,
     success_count |-> 0, window |-> << >>, consecutive_failures |-> 0,
     total_calls |-> 0]

\* SlidingWindow::push_result
SlidingWindow_push_result(window, result) ==
    IF Len(window) >= DEFAULT_WINDOW_SIZE
    THEN Append(Tail(window), result)
    ELSE Append(window, result)

\* record_success that leaves the consecutive failures as they are
record_success_NoReset(h, latency_ms) ==
    [h EXCEPT !.success_count = @ + 1,
              !.last_success = TRUE,
              !.last_error = "none",
              !.total_calls = @ + 1,
              !.window = SlidingWindow_push_result(@, [success |-> TRUE, latency_ms |-> latency_ms])]

\* PluginInstance::record_success
record_success(h, latency_ms) ==
    [h EXCEPT !.success_count = @ + 1,
              !.last_success = TRUE,
              !.last_error = "none",
              !.total_calls = @ + 1,
              !.window = SlidingWindow_push_result(@, [success |-> TRUE, latency_ms |-> latency_ms]),
              !.consecutive_failures = 0]

\* PluginInstance::record_failure
record_failure(h, error) ==
    [h EXCEPT !.error_count = @ + 1,
              !.last_error = error,
              !.total_calls = @ + 1,
              !.window = SlidingWindow_push_result(@, [success |-> FALSE, latency_ms |-> 0]),
              !.consecutive_failures = @ + 1]

\* PluginInstance::reset_health_stats
reset_health_stats(h) ==
    [h EXCEPT !.error_count = 0, !.success_count = 0, !.last_error = "none",
              !.window = << >>, !.consecutive_failures = 0, !.total_calls = 0]

\* the positions of the successful calls of a window
Successes(window) == {i \in 1..Len(window) : window[i].success}

\* SlidingWindow::success_rate < num/den (the rate of an empty window is 1.0)
RateBelow(window, num, den) ==
    /\ window # << >>
    /\ Cardinality(Successes(window)) * den < num * Len(window)

\* SlidingWindow::p99_latency_ms: the entry at index ceil(0.99 * n) - 1 of the
\* sorted latencies of the n successful calls, 0 when there is none
p99_latency_ms(window) ==
    LET ok == Successes(window)
        n == Cardinality(ok)
        k == (99 * n + 99) \div 100
    IN IF n = 0 THEN 0
       ELSE CHOOSE v \in {window[i].latency_ms : i \in ok} :
               /\ Cardinality({i \in ok : window[i].latency_ms < v}) < k
               /\ k <= Cardinality({i \in ok : window[i].latency_ms <= v})

\* to_health that looks at the latency before the success rate
to_health_LatencyFirst(h) ==
    IF h.consecutive_failures >= 3 THEN "Unhealthy"
    ELSE IF p99_latency_ms(h.window) > 5000 THEN "Degraded"
    ELSE IF RateBelow(h.window, 80, 100) THEN "Unhealthy"
    ELSE IF RateBelow(h.window, 95, 100) THEN "Degraded"
    ELSE "Healthy"

\* PluginInstance::to_health: the status
to_health(h) ==
    IF h.consecutive_failures >= 3 THEN "Unhealthy"
    ELSE IF RateBelow(h.window, 80, 100) THEN "Unhealthy"
    ELSE IF p99_latency_ms(h.window) > 5000 THEN "Degraded"
    ELSE IF RateBelow(h.window, 95, 100) THEN "Degraded"
    ELSE "Healthy"

\* a PluginInstance as PluginInstance::new makes it, no call recorded
InitHealth ==
    /\ inst = NewHealth
    /\ inst_status = to_health(NewHealth)
    /\ calls = << >>

\* record_success on the instance, and the status to_health reports then
InstanceRecordSuccess(latency_ms) ==
    /\ UNCHANGED nonHealthVars
    /\ Len(calls) < MaxRecords
    /\ inst' = record_success(inst, latency_ms)
    /\ inst_status' = to_health(inst')
    /\ calls' = Append(calls, "success")

\* record_failure on the instance, and the status to_health reports then
InstanceRecordFailure ==
    /\ UNCHANGED nonHealthVars
    /\ Len(calls) < MaxRecords
    /\ inst' = record_failure(inst, "error")
    /\ inst_status' = to_health(inst')
    /\ calls' = Append(calls, "failure")

NextHealth ==
    \/ \E latency_ms \in Latencies : InstanceRecordSuccess(latency_ms)
    \/ InstanceRecordFailure

\* ------------------------------------------------------------------------
\* Plugin manager (plugin/lifecycle.rs) with the permission checker and method
\* registry (plugin/permission.rs) and the config manager (plugin/config.rs)
\* ------------------------------------------------------------------------
\* a permission string is kept as the parts s.split(':') yields, in lower case
NoPermission == [kind |-> "None", target_plugin |-> "", method |-> ""]

\* Permission::parse
ParsePermission(s) ==
    IF s[1] = "call"
    THEN IF Len(s) >= 3 /\ s[2] # "" /\ s[3] # ""
         THEN [kind |-> "Call", target_plugin |-> s[2], method |-> s[3]]
         ELSE NoPermission
    ELSE CASE s[1] \in {"network", "fetch"} -> [NoPermission EXCEPT !.kind = "Network"]
           [] s[1] \in {"timer", "settimeout"} -> [NoPermission EXCEPT !.kind = "Timer"]
           [] s[1] = "storage" -> [NoPermission EXCEPT !.kind = "Storage"]
           [] s[1] = "cache" -> [NoPermission EXCEPT !.kind = "Cache"]
           [] OTHER -> NoPermission

\* the contents manifest.json can have: three manifests that parse, the third
\* with a configSchema that is not a ConfigSchema, and a file that is not a
\* manifest
ManifestA ==
    [json_ok |-> TRUE, version |-> 1,
     subscribed_events |-> {PluginEventName("p1", GoodAction), <<"plugin", "p1">>},
     permissions |-> {<<"network">>, <<"call", "p2">>},
     exposed_methods |-> {"get"}, config_schema |-> "schema_a"]
ManifestB ==
    [json_ok |-> TRUE, version |-> 2, subscribed_events |-> {}, permissions |-> {},
     exposed_methods |-> {}, config_schema |-> "absent"]
ManifestBadSchema ==
    [json_ok |-> TRUE, version |-> 3,
     subscribed_events |-> {SystemEventName("refresh_all")},
     permissions |-> {<<"timer">>},
     exposed_methods |-> {"set"}, config_schema |-> "invalid"]
ManifestBroken ==
    [json_ok |-> FALSE, version |-> 0, subscribed_events |-> {}, permissions |-> {},
     exposed_methods |-> {}, config_schema |-> "absent"]

\* the manifest.json of a plugin directory that has been removed
NoManifest ==
    [json_ok |-> FALSE, version |-> -1, subscribed_events |-> {}, permissions |-> {},
     exposed_methods |-> {}, config_schema |-> "absent"]

ManifestFiles == {ManifestA, ManifestB, ManifestBadSchema, ManifestBroken}

\* serde_json::from_value::<ConfigSchema>: "err" when the value is not a schema
ParseSchema(json) == IF json = "invalid" THEN "err" ELSE json

ReloadCallers == {1, 2}

\* handler notes whether the plugin had an event handler when reload_plugin
\* was called
IdleReload == [pc |-> "idle", id |-> NoPlugin, new_manifest |-> ManifestBroken,
               validated_schema |-> "none", result |-> "none", touched |-> FALSE,
               handler |-> FALSE]

IdleUninstall == [pc |-> "idle", id |-> NoPlugin, alone |-> TRUE]

\* PluginManager::new: no plugin, empty registries, no dispatcher
InitLifeWith(files) ==
    /\ disk = files
    /\ plugins = << >>
    /\ permissions = << >>
    /\ methods = {}
    /\ schemas = << >>
    /\ rl = [c \in ReloadCallers |-> IdleReload]
    /\ life_ops = 0
    /\ un = IdleUninstall
    /\ sd = "idle"
    /\ call_disp = [handle |-> FALSE, rx |-> TRUE, task |-> "unspawned"]
    /\ life_ret = [op |-> "none", id |-> NoPlugin, result |-> "none", n |-> 0]

InitLife == \E m \in {ManifestA, ManifestB} : InitLifeWith([p \in Plugins |-> m])

\* PermissionChecker::register_permissions on the map
RegisterPermissions(perms, plugin_id, permission_strs) ==
    LET parsed == {ParsePermission(s) : s \in permission_strs} \ {NoPermission}
    IN [p \in DOMAIN perms \cup {plugin_id} |->
          IF p = plugin_id THEN parsed ELSE perms[p]]

\* HashMap::remove
RemoveKey(map, key) == [k \in DOMAIN map \ {key} |-> map[k]]

\* HashMap::insert
InsertKey(map, key, value) ==
    [k \in DOMAIN map \cup {key} |-> IF k = key THEN value ELSE map[k]]

\* what the registries hold for a plugin
Registrations(id) ==
    [subscriptions |-> {n \in DOMAIN subscriptions : id \in subscriptions[n]},
     has_permissions |-> id \in DOMAIN permissions,
     permissions |-> IF id \in DOMAIN permissions THEN permissions[id] ELSE {},
     methods |-> {m \in methods : m[1] = id},
     schema |-> IF id \in DOMAIN schemas THEN schemas[id] ELSE "none"]

\* a call that loads or reloads a plugin of `ids` begins: an uninstall_plugin
\* of that plugin that has not returned no longer runs alone
Overlaps(ids) ==
    un' = IF un.pc # "idle" /\ un.id \in ids THEN [un EXCEPT !.alone = FALSE] ELSE un

\* the file of a plugin directory is rewritten
WriteManifest(id, file) ==
    /\ UNCHANGED <<nonLifeVars, busVars, mgrVars>>
    /\ life_ops < MaxLifeOps
    /\ disk[id] # file
    /\ disk' = [disk EXCEPT ![id] = file]
    /\ life_ops' = life_ops + 1
    /\ UNCHANGED <<plugins, permissions, methods, schemas, rl>>

\* the manifests discover_async finds: the files that parse
Discovered == {id \in Plugins : disk[id].json_ok}

\* the registrations of discover_and_load for the plugins of `ids`, made on
\* top of the registries s, p, m, c
RECURSIVE LoadSubs(_, _)
LoadSubs(subs, ids) ==
    IF ids = {} THEN subs
    ELSE LET id == CHOOSE x \in ids : TRUE
         IN LoadSubs(SubscribeInto(subs, id, disk[id].subscribed_events), ids \ {id})

RECURSIVE LoadSchemas(_, _)
LoadSchemas(map, ids) ==
    IF ids = {} THEN map
    ELSE LET id == CHOOSE x \in ids : TRUE
             json == disk[id].config_schema
         IN LoadSchemas(IF json \in {"absent", "null"} \/ ParseSchema(json) = "err"
                        THEN map ELSE InsertKey(map, id, ParseSchema(json)),
                        ids \ {id})

RECURSIVE LoadPermissions(_, _)
LoadPermissions(map, ids) ==
    IF ids = {} THEN map
    ELSE LET id == CHOOSE x \in ids : TRUE
         IN LoadPermissions(IF disk[id].permissions = {} THEN map
                            ELSE RegisterPermissions(map, id, disk[id].permissions),
                            ids \ {id})

\* PluginManager::discover_and_load: under plugins.write(), for every manifest
\* found, subscribe, register_schema_from_json, register_permissions, register
\* every exposed method and insert a new PluginInstance
discover_and_load ==
    /\ UNCHANGED <<nonLifeVars, sd, call_disp, life_ret>>
    /\ Overlaps(Discovered)
    /\ life_ops < MaxLifeOps
    /\ life_ops' = life_ops + 1
    /\ subscriptions' = LoadSubs(subscriptions, Discovered)
    /\ bus_stats' = [bus_stats EXCEPT !.total_subscriptions =
                        TotalSubscriptions(subscriptions')]
    /\ schemas' = LoadSchemas(schemas, Discovered)
    /\ permissions' = LoadPermissions(permissions, Discovered)
    /\ methods' = methods \cup UNION {{<<id, m>> : m \in disk[id].exposed_methods} :
                                       id \in Discovered}
    /\ plugins' = [id \in DOMAIN plugins \cup Discovered |->
                     IF id \in Discovered
                     THEN [manifest |-> disk[id], state |-> "Unloaded", enabled |-> FALSE,
                           resources |-> {}, cached_data |-> "none",
                           health |-> NewHealth]
                     ELSE plugins[id]]
    /\ UNCHANGED <<disk, rl, handlers, busRest>>

\* the step changes what the registries hold for the plugin being reloaded
RegistrationsChange(c) ==
    \E id \in {rl[c].id} : Registrations(id)' # Registrations(id)

\* a step of reload_plugin moves the caller on and notes whether the step
\* changed what the registries hold for the plugin
ReloadAdvance(c, to) ==
    rl' = [rl EXCEPT ![c].pc = to,
                     ![c].touched = @ \/ RegistrationsChange(c)]

ReloadReturn(c, result) ==
    rl' = [rl EXCEPT ![c].pc = "done", ![c].result = result,
                     ![c].touched = @ \/ RegistrationsChange(c)]

\* reload_plugin 1.1: the manifest path under plugins.read(), or the error when
\* the plugin is not in the table
ReloadPath(c, id) ==
    /\ UNCHANGED <<nonLifeVars, busVars, sd, call_disp, life_ret>>
    /\ Overlaps({id})
    /\ rl[c].pc = "idle"
    /\ life_ops < MaxLifeOps
    /\ life_ops' = life_ops + 1
    /\ rl' = [rl EXCEPT ![c] = [IdleReload EXCEPT !.id = id,
                 !.pc = IF id \in DOMAIN plugins THEN "read" ELSE "done",
                 !.result = IF id \in DOMAIN plugins THEN "none" ELSE "PluginLoad",
                 !.handler = id \in handlers]]
    /\ UNCHANGED <<disk, plugins, permissions, methods, schemas>>

\* ReloadRead that clears the old registrations before it looks at the schema
ReloadRead_ClearFirst(c) ==
    /\ UNCHANGED <<nonLifeVars, mgrVars>>
    /\ rl[c].pc = "read"
    /\ unsubscribe_only(rl[c].id)
    /\ permissions' = RemoveKey(permissions, rl[c].id)
    /\ methods' = {m \in methods : m[1] # rl[c].id}
    /\ schemas' = RemoveKey(schemas, rl[c].id)
    /\ UNCHANGED <<disk, plugins, life_ops, handlers, busRest>>
    /\ LET file == disk[rl[c].id]
       IN IF ~file.json_ok
          THEN ReloadReturn(c, IF file = NoManifest THEN "Io" ELSE "ManifestParse")
          ELSE IF file.config_schema \notin {"absent", "null"}
                  /\ ParseSchema(file.config_schema) = "err"
          THEN rl' = [rl EXCEPT ![c].pc = "done", ![c].result = "SchemaInvalid",
                         ![c].new_manifest = file,
                         ![c].touched = @ \/ RegistrationsChange(c)]
          ELSE rl' = [rl EXCEPT ![c].pc = "subscribe", ![c].new_manifest = file,
                         ![c].validated_schema =
                             IF file.config_schema \in {"absent", "null"} THEN "none"
                             ELSE ParseSchema(file.config_schema),
                         ![c].touched = @ \/ RegistrationsChange(c)]

\* reload_plugin 1.2 and 1.3: read the file, parse the manifest, validate its
\* configSchema; each failure returns before any registry is touched
ReloadRead(c) ==
    /\ UNCHANGED <<nonLifeVars, busVars, mgrVars>>
    /\ rl[c].pc = "read"
    /\ UNCHANGED <<disk, plugins, permissions, methods, schemas, life_ops>>
    /\ LET file == disk[rl[c].id]
       IN IF ~file.json_ok
          THEN ReloadReturn(c, IF file = NoManifest THEN "Io" ELSE "ManifestParse")
          ELSE IF file.config_schema \notin {"absent", "null"}
                  /\ ParseSchema(file.config_schema) = "err"
          THEN rl' = [rl EXCEPT ![c].pc = "done", ![c].result = "SchemaInvalid",
                                ![c].new_manifest = file]
          ELSE rl' = [rl EXCEPT ![c].pc = "unsubscribe", ![c].new_manifest = file,
                         ![c].validated_schema =
                             IF file.config_schema \in {"absent", "null"} THEN "none"
                             ELSE ParseSchema(file.config_schema)]

\* ReloadUnsubscribe that calls unsubscribe_all, as uninstall_plugin does
ReloadUnsubscribe_DropHandler(c) ==
    /\ UNCHANGED <<nonLifeVars, mgrVars>>
    /\ rl[c].pc = "unsubscribe"
    /\ unsubscribe_all(rl[c].id)
    /\ UNCHANGED <<disk, plugins, permissions, methods, schemas, life_ops, busRest>>
    /\ ReloadAdvance(c, "unpermit")

\* reload_plugin 2.1: event_bus.unsubscribe_only
ReloadUnsubscribe(c) ==
    /\ UNCHANGED <<nonLifeVars, mgrVars>>
    /\ rl[c].pc = "unsubscribe"
    /\ unsubscribe_only(rl[c].id)
    /\ UNCHANGED <<disk, plugins, permissions, methods, schemas, life_ops, handlers, busRest>>
    /\ ReloadAdvance(c, "unpermit")

\* reload_plugin 2.1: permission_checker.unregister_permissions
ReloadUnregisterPermissions(c) ==
    /\ UNCHANGED <<nonLifeVars, busVars, mgrVars>>
    /\ rl[c].pc = "unpermit"
    /\ permissions' = RemoveKey(permissions, rl[c].id)
    /\ UNCHANGED <<disk, plugins, methods, schemas, life_ops>>
    /\ ReloadAdvance(c, "unmethod")

\* reload_plugin 2.1: method_registry.unregister_all
ReloadUnregisterMethods(c) ==
    /\ UNCHANGED <<nonLifeVars, busVars, mgrVars>>
    /\ rl[c].pc = "unmethod"
    /\ methods' = {m \in methods : m[1] # rl[c].id}
    /\ UNCHANGED <<disk, plugins, permissions, schemas, life_ops>>
    /\ ReloadAdvance(c, "unschema")

\* reload_plugin 2.1: config_manager.unregister_schema
ReloadUnregisterSchema(c) ==
    /\ UNCHANGED <<nonLifeVars, busVars, mgrVars>>
    /\ rl[c].pc = "unschema"
    /\ schemas' = RemoveKey(schemas, rl[c].id)
    /\ UNCHANGED <<disk, plugins, permissions, methods, life_ops>>
    /\ ReloadAdvance(c, "subscribe")

\* reload_plugin 2.2: event_bus.subscribe when the new manifest subscribes
ReloadSubscribe(c) ==
    /\ UNCHANGED <<nonLifeVars, mgrVars>>
    /\ rl[c].pc = "subscribe"
    /\ IF rl[c].new_manifest.subscribed_events # {}
       THEN subscribe(rl[c].id, rl[c].new_manifest.subscribed_events)
       ELSE UNCHANGED <<subscriptions, bus_stats>>
    /\ UNCHANGED <<disk, plugins, permissions, methods, schemas, life_ops, handlers, busRest>>
    /\ ReloadAdvance(c, "schema")

\* reload_plugin 2.2: config_manager.register_schema with the validated schema
ReloadRegisterSchema(c) ==
    /\ UNCHANGED <<nonLifeVars, busVars, mgrVars>>
    /\ rl[c].pc = "schema"
    /\ schemas' = IF rl[c].validated_schema # "none"
                  THEN InsertKey(schemas, rl[c].id, rl[c].validated_schema)
                  ELSE schemas
    /\ UNCHANGED <<disk, plugins, permissions, methods, life_ops>>
    /\ ReloadAdvance(c, "permit")

\* reload_plugin 2.2: permission_checker.register_permissions when the new
\* manifest declares permissions
ReloadRegisterPermissions(c) ==
    /\ UNCHANGED <<nonLifeVars, busVars, mgrVars>>
    /\ rl[c].pc = "permit"
    /\ permissions' = IF rl[c].new_manifest.permissions # {}
                      THEN RegisterPermissions(permissions, rl[c].id,
                                               rl[c].new_manifest.permissions)
                      ELSE permissions
    /\ UNCHANGED <<disk, plugins, methods, schemas, life_ops>>
    /\ ReloadAdvance(c, "method")

\* reload_plugin 2.2: method_registry.register for the exposed methods
ReloadRegisterMethods(c) ==
    /\ UNCHANGED <<nonLifeVars, busVars, mgrVars>>
    /\ rl[c].pc = "method"
    /\ methods' = methods \cup {<<rl[c].id, m>> : m \in rl[c].new_manifest.exposed_methods}
    /\ UNCHANGED <<disk, plugins, permissions, schemas, life_ops>>
    /\ ReloadAdvance(c, "commit")

\* reload_plugin, last block: under plugins.write() the instance takes the new
\* manifest, state Unloaded and fresh health statistics; when the plugin has
\* left the table the new registrations are removed again
ReloadCommit(c) ==
    /\ UNCHANGED <<nonLifeVars, mgrVars>>
    /\ rl[c].pc = "commit"
    /\ UNCHANGED <<disk, life_ops, handlers, busRest>>
    /\ IF rl[c].id \in DOMAIN plugins
       THEN /\ plugins' = [plugins EXCEPT ![rl[c].id].manifest = rl[c].new_manifest,
                                          ![rl[c].id].state = "Unloaded",
                                          ![rl[c].id].health = reset_health_stats(@)]
            /\ UNCHANGED <<subscriptions, bus_stats, permissions, methods, schemas>>
            /\ ReloadReturn(c, "Ok")
       ELSE /\ unsubscribe_only(rl[c].id)
            /\ permissions' = RemoveKey(permissions, rl[c].id)
            /\ methods' = {m \in methods : m[1] # rl[c].id}
            /\ schemas' = RemoveKey(schemas, rl[c].id)
            /\ UNCHANGED plugins
            /\ ReloadReturn(c, "PluginLoad")

\* the caller of reload_plugin has its result
ReloadDone(c) ==
    /\ UNCHANGED <<nonLifeVars, busVars, mgrVars>>
    /\ rl[c].pc = "done"
    /\ rl' = [rl EXCEPT ![c] = IdleReload]
    /\ UNCHANGED <<disk, plugins, permissions, methods, schemas, life_ops>>

NextLife ==
    \/ \E id \in Plugins, file \in ManifestFiles : WriteManifest(id, file)
    \/ discover_and_load
    \/ \E c \in ReloadCallers :
          \/ \E id \in Plugins : ReloadPath(c, id)
          \/ ReloadRead(c)
          \/ ReloadUnsubscribe(c)
          \/ ReloadUnregisterPermissions(c)
          \/ ReloadUnregisterMethods(c)
          \/ ReloadUnregisterSchema(c)
          \/ ReloadSubscribe(c)
          \/ ReloadRegisterSchema(c)
          \/ ReloadRegisterPermissions(c)
          \/ ReloadRegisterMethods(c)
          \/ ReloadCommit(c)
          \/ ReloadDone(c)

\* ------------------------------------------------------------------------
\* Unloading (plugin/lifecycle.rs): enable_plugin, disable_plugin,
\* uninstall_plugin, shutdown and the call dispatcher
\* ------------------------------------------------------------------------
\* a call of PluginManager returns: the ghost life_ret notes which call, for
\* which plugin, with which result, and the count of calls so far
Returns(op, id, result) ==
    life_ret' = [op |-> op, id |-> id, result |-> result, n |-> life_ops']

\* PluginManager::enable_plugin
enable_plugin(id) ==
    /\ UNCHANGED <<nonLifeVars, busVars>>
    /\ life_ops < MaxLifeOps
    /\ life_ops' = life_ops + 1
    /\ IF id \in DOMAIN plugins
       THEN /\ plugins' = [plugins EXCEPT ![id].enabled = TRUE]
            /\ Returns("enable_plugin", id, "Ok")
       ELSE /\ UNCHANGED plugins
            /\ Returns("enable_plugin", id, "PluginLoad")
    /\ UNCHANGED <<disk, permissions, methods, schemas, rl, un, sd, call_disp>>

\* PluginManager::disable_plugin, all of it under plugins.write(): enabled =
\* false, resources.clear(), event_bus.unsubscribe_all and
\* method_registry.unregister_all
disable_plugin(id) ==
    /\ UNCHANGED nonLifeVars
    /\ life_ops < MaxLifeOps
    /\ life_ops' = life_ops + 1
    /\ IF id \in DOMAIN plugins
       THEN /\ plugins' = [plugins EXCEPT ![id].enabled = FALSE,
                                          ![id].resources = {}]
            /\ unsubscribe_all(id)
            /\ methods' = {m \in methods : m[1] # id}
            /\ Returns("disable_plugin", id, "Ok")
       ELSE /\ UNCHANGED <<plugins, subscriptions, bus_stats, handlers, methods>>
            /\ Returns("disable_plugin", id, "PluginUnload")
    /\ UNCHANGED <<disk, permissions, schemas, rl, un, sd, call_disp, busRest>>

\* a reload_plugin(id) that is between its first and its last statement
ReloadInFlight(id) ==
    \E c \in ReloadCallers : rl[c].id = id /\ rl[c].pc \notin {"idle", "done"}

\* EventBus::register_handler for a plugin the manager has loaded
PluginRegisterHandler(id) ==
    /\ UNCHANGED <<nonLifeVars, sd, call_disp, life_ret>>
    /\ id \notin handlers
    /\ handlers' = handlers \cup {id}
    /\ Overlaps({id})
    /\ UNCHANGED <<disk, plugins, permissions, methods, schemas, rl, life_ops,
                   subscriptions, bus_stats, busRest>>

\* UninstallUnsubscribe that leaves the plugin's handler registered
UninstallUnsubscribe_KeepHandler(id) ==
    /\ UNCHANGED nonLifeVars
    /\ un.pc = "idle"
    /\ life_ops < MaxLifeOps
    /\ life_ops' = life_ops + 1
    /\ unsubscribe_only(id)
    /\ un' = [pc |-> "unpermit", id |-> id, alone |-> ~ReloadInFlight(id)]
    /\ UNCHANGED <<disk, plugins, permissions, methods, schemas, rl, sd, call_disp,
                   life_ret, handlers, busRest>>

\* uninstall_plugin: event_bus.unsubscribe_all, the first statement
UninstallUnsubscribe(id) ==
    /\ UNCHANGED nonLifeVars
    /\ un.pc = "idle"
    /\ life_ops < MaxLifeOps
    /\ life_ops' = life_ops + 1
    /\ unsubscribe_all(id)
    /\ un' = [pc |-> "unpermit", id |-> id, alone |-> ~ReloadInFlight(id)]
    /\ UNCHANGED <<disk, plugins, permissions, methods, schemas, rl, sd, call_disp,
                   life_ret, busRest>>

\* uninstall_plugin: permission_checker.unregister_permissions
UninstallUnregisterPermissions ==
    /\ UNCHANGED <<nonLifeVars, busVars>>
    /\ un.pc = "unpermit"
    /\ permissions' = RemoveKey(permissions, un.id)
    /\ un' = [un EXCEPT !.pc = "unmethod"]
    /\ UNCHANGED <<disk, plugins, methods, schemas, rl, life_ops, sd, call_disp, life_ret>>

\* uninstall_plugin: method_registry.unregister_all
UninstallUnregisterMethods ==
    /\ UNCHANGED <<nonLifeVars, busVars>>
    /\ un.pc = "unmethod"
    /\ methods' = {m \in methods : m[1] # un.id}
    /\ un' = [un EXCEPT !.pc = "unschema"]
    /\ UNCHANGED <<disk, plugins, permissions, schemas, rl, life_ops, sd, call_disp,
                   life_ret>>

\* uninstall_plugin: config_manager.unregister_schema
UninstallUnregisterSchema ==
    /\ UNCHANGED <<nonLifeVars, busVars>>
    /\ un.pc = "unschema"
    /\ schemas' = RemoveKey(schemas, un.id)
    /\ un' = [un EXCEPT !.pc = "remove"]
    /\ UNCHANGED <<disk, plugins, permissions, methods, rl, life_ops, sd, call_disp,
                   life_ret>>

\* uninstall_plugin 1: under plugins.write() the instance leaves the table and
\* its resources are cleared; Err(PluginUnload) when it is not there
UninstallRemove ==
    /\ UNCHANGED <<nonLifeVars, busVars>>
    /\ UNCHANGED <<disk, permissions, methods, schemas, rl, life_ops, sd, call_disp>>
    /\ un.pc = "remove"
    /\ IF un.id \in DOMAIN plugins
       THEN /\ plugins' = RemoveKey(plugins, un.id)
            /\ un' = [un EXCEPT !.pc = "delete"]
            /\ UNCHANGED life_ret
       ELSE /\ UNCHANGED plugins
            /\ un' = IdleUninstall
            /\ Returns("uninstall_plugin", un.id, "PluginUnload")

\* uninstall_plugin 2: tokio::fs::remove_dir_all of the plugin directory, which
\* can fail with an io error
UninstallDelete(result) ==
    /\ UNCHANGED <<nonLifeVars, busVars>>
    /\ UNCHANGED <<plugins, permissions, methods, schemas, rl, life_ops, sd, call_disp>>
    /\ un.pc = "delete"
    /\ disk' = IF result = "Ok" THEN [disk EXCEPT ![un.id] = NoManifest] ELSE disk
    /\ un' = IdleUninstall
    /\ Returns("uninstall_plugin", un.id, result)

\* PluginManager::start_call_dispatcher: nothing when a handle is stored or
\* call_rx has been taken, otherwise take call_rx and spawn the task
start_call_dispatcher ==
    /\ UNCHANGED <<nonLifeVars, busVars>>
    /\ ~call_disp.handle
    /\ call_disp.rx
    /\ call_disp' = [handle |-> TRUE, rx |-> FALSE, task |-> "running"]
    /\ UNCHANGED <<disk, plugins, permissions, methods, schemas, rl, life_ops, un, sd,
                   life_ret>>

\* PluginManager::stop_call_dispatcher: handle.take() and JoinHandle::abort
StopCallDispatcher(cd) ==
    IF cd.handle THEN [cd EXCEPT !.handle = FALSE, !.task = "aborted"] ELSE cd

\* PluginManager::shutdown: self.stop_dispatcher().await
ShutdownStopDispatcher ==
    /\ UNCHANGED nonLifeVars
    /\ sd = "idle"
    /\ life_ops < MaxLifeOps
    /\ life_ops' = life_ops + 1
    /\ IF dispatcher_handle # 0
       THEN /\ dtask' = [dtask EXCEPT ![dispatcher_handle].aborted = TRUE]
            /\ dispatcher_handle' = 0
       ELSE UNCHANGED <<dtask, dispatcher_handle>>
    /\ sd' = "call"
    /\ UNCHANGED <<disk, plugins, permissions, methods, schemas, rl, un, call_disp,
                   life_ret>>
    /\ UNCHANGED <<queue_size, subscriptions, handlers, event_queue, pending_send,
                   bus_stats, last_started, emitted>>

\* PluginManager::shutdown: self.stop_call_dispatcher().await, and the return
ShutdownStopCallDispatcher ==
    /\ UNCHANGED <<nonLifeVars, busVars>>
    /\ UNCHANGED <<disk, plugins, permissions, methods, schemas, rl, life_ops, un>>
    /\ sd = "call"
    /\ call_disp' = StopCallDispatcher(call_disp)
    /\ sd' = "idle"
    /\ Returns("shutdown", NoPlugin, "Ok")

\* the calls that load, reload, disable and uninstall plugins and stop the
\* plugin system, with one caller of reload_plugin
NextUnload ==
    \/ discover_and_load
    \/ start_dispatcher
    \/ start_call_dispatcher
    \/ \E id \in Plugins : PluginRegisterHandler(id)
    \/ \E id \in Plugins : enable_plugin(id)
    \/ \E id \in Plugins : disable_plugin(id)
    \/ \E id \in Plugins : UninstallUnsubscribe(id)
    \/ UninstallUnregisterPermissions
    \/ UninstallUnregisterMethods
    \/ UninstallUnregisterSchema
    \/ UninstallRemove
    \/ \E result \in {"Ok", "Io"} : UninstallDelete(result)
    \/ ShutdownStopDispatcher
    \/ ShutdownStopCallDispatcher
    \/ \E id \in Plugins : ReloadPath(1, id)
    \/ ReloadRead(1)
    \/ ReloadUnsubscribe(1)
    \/ ReloadUnregisterPermissions(1)
    \/ ReloadUnregisterMethods(1)
    \/ ReloadUnregisterSchema(1)
    \/ ReloadSubscribe(1)
    \/ ReloadRegisterSchema(1)
    \/ ReloadRegisterPermissions(1)
    \/ ReloadRegisterMethods(1)
    \/ ReloadCommit(1)
    \/ ReloadDone(1)

\* ------------------------------------------------------------------------
\* Refresh (commands/ipc.rs refresh_plugin, plugin/lifecycle.rs
\* execute_fetch_data)
\* ------------------------------------------------------------------------
\* what execute_in_sandbox and parse_fetch_result return
ExecOutcomes == {"Ok", "PluginLoad"}

IdleRefresh == [pc |-> "idle", id |-> NoPlugin, latency_ms |-> 0, result |-> "none",
                executed |-> FALSE, before |-> NewHealth, ipc |-> "none"]

\* no refresh has been asked for
InitExec ==
    /\ rf = IdleRefresh
    /\ ui_events = {}
    /\ refreshes = 0

\* refresh_plugin is called: execute_fetch_data reads the instance under
\* plugins.read() and returns PluginLoad when it is absent or not enabled or
\* when its entry file cannot be read
RefreshBegin(id, entry_ok) ==
    /\ UNCHANGED <<nonExecVars, lifeVars>>
    /\ rf.pc = "idle"
    /\ refreshes < MaxRefreshes
    /\ refreshes' = refreshes + 1
    /\ rf' = IF id \in DOMAIN plugins /\ plugins[id].enabled /\ entry_ok
             THEN [IdleRefresh EXCEPT !.pc = "sandbox", !.id = id]
             ELSE [IdleRefresh EXCEPT !.pc = "failed", !.id = id,
                                      !.result = "PluginLoad", !.executed = FALSE]
    /\ UNCHANGED ui_events

\* execute_fetch_data 2 to 4: transform_esm_to_executable, execute_in_sandbox
\* and parse_fetch_result; each returns its error with `?`
ExecuteInSandbox(outcome, latency_ms) ==
    /\ UNCHANGED <<nonExecVars, lifeVars>>
    /\ rf.pc = "sandbox"
    /\ rf' = IF outcome = "Ok"
             THEN [rf EXCEPT !.pc = "store", !.latency_ms = latency_ms]
             ELSE [rf EXCEPT !.pc = "failed", !.result = outcome, !.executed = TRUE,
                             !.before = IF rf.id \in DOMAIN plugins
                                        THEN plugins[rf.id].health ELSE NewHealth]
    /\ UNCHANGED <<ui_events, refreshes>>

\* execute_fetch_data 5: set_plugin_data under plugins.write() stores the data
\* and calls record_success
ExecuteStore ==
    /\ UNCHANGED nonExecVars
    /\ rf.pc = "store"
    /\ IF rf.id \in DOMAIN plugins
       THEN /\ plugins' = [plugins EXCEPT ![rf.id].cached_data = "data",
                              ![rf.id].health = record_success(@, rf.latency_ms)]
            /\ rf' = [rf EXCEPT !.pc = "succeeded", !.result = "Ok"]
       ELSE /\ UNCHANGED plugins
            /\ rf' = [rf EXCEPT !.pc = "failed", !.result = "PluginLoad",
                                !.executed = FALSE]
    /\ UNCHANGED <<disk, permissions, methods, schemas, rl, life_ops, mgrVars>>
    /\ UNCHANGED <<ui_events, refreshes>>

\* refresh_plugin, Ok(data): plugin_data_updated is emitted and the caller gets
\* the data
RefreshOk ==
    /\ UNCHANGED <<nonExecVars, lifeVars>>
    /\ rf.pc = "succeeded"
    /\ ui_events' = ui_events \cup {<<"plugin_data_updated", rf.id>>}
    /\ rf' = [rf EXCEPT !.pc = "idle", !.ipc = "ok_data"]
    /\ UNCHANGED refreshes

\* refresh_plugin, Err(e): plugin_error is emitted and the caller gets
\* IpcResult::ok with the cached data, if any
RefreshErr ==
    /\ UNCHANGED <<nonExecVars, lifeVars>>
    /\ rf.pc = "failed"
    /\ ui_events' = ui_events \cup {<<"plugin_error", rf.id>>}
    /\ rf' = [rf EXCEPT !.pc = "idle",
                        !.ipc = IF rf.id \in DOMAIN plugins
                                   /\ plugins[rf.id].cached_data # "none"
                                THEN "ok_cached" ELSE "ok_none"]
    /\ UNCHANGED refreshes

\* plugins are loaded, enabled and disabled while one caller refreshes
NextExec ==
    \/ discover_and_load
    \/ \E id \in Plugins : enable_plugin(id)
    \/ \E id \in Plugins : disable_plugin(id)
    \/ \E id \in Plugins, entry_ok \in BOOLEAN : RefreshBegin(id, entry_ok)
    \/ \E outcome \in ExecOutcomes, latency_ms \in {100, 6000} :
          ExecuteInSandbox(outcome, latency_ms)
    \/ ExecuteStore
    \/ RefreshOk
    \/ RefreshErr

\* ------------------------------------------------------------------------
\* Cross-plugin calls (plugin/permission.rs): PermissionChecker, MethodRegistry
\* and CallStack
\* ------------------------------------------------------------------------
\* the plugin ids a call chain is made of
ChainPlugins == {"p1", "p2", "p3", "p4"}

\* the methods a call names
MethodNames == {"get", "set"}

\* the permission lists register_permissions is called with; "call:p2" does
\* not parse
PermissionLists ==
    {{<<"call", "p2", "get">>},
     {<<"network">>, <<"call", "p2">>}}

\* CallStack::DEFAULT_MAX_DEPTH
DEFAULT_MAX_DEPTH == 3

\* CallStack::new
NewCallStack(max_depth) == [stack |-> << >>, max_depth |-> max_depth]

\* PermissionChecker::create_call_stack (max_call_depth is DEFAULT_MAX_DEPTH)
create_call_stack == NewCallStack(DEFAULT_MAX_DEPTH)

IdleCheck == [pc |-> "idle", caller |-> NoPlugin, target |-> NoPlugin,
              method |-> "", full |-> FALSE, result |-> "none"]

\* no check in progress, an empty call chain
InitCall ==
    /\ vc = IdleCheck
    /\ call_stack = create_call_stack
    /\ push_result = "none"

\* Permission::Call { target_plugin, method }
CallPermission(target, method) ==
    [kind |-> "Call", target_plugin |-> target, method |-> method]

\* PermissionChecker::has_permission
has_permission(plugin_id, permission) ==
    plugin_id \in DOMAIN permissions /\ permission \in permissions[plugin_id]

\* MethodRegistry::is_registered
is_registered(plugin_id, method_name) == <<plugin_id, method_name>> \in methods

\* PermissionChecker::register_permissions
register_permissions(plugin_id, permission_strs) ==
    /\ UNCHANGED <<nonCallVars, callVars>>
    /\ permissions' = RegisterPermissions(permissions, plugin_id, permission_strs)
    /\ permissions' # permissions
    /\ UNCHANGED <<disk, plugins, methods, schemas, rl, life_ops, mgrVars>>

\* PermissionChecker::unregister_permissions
unregister_permissions(plugin_id) ==
    /\ UNCHANGED <<nonCallVars, callVars>>
    /\ plugin_id \in DOMAIN permissions
    /\ permissions' = RemoveKey(permissions, plugin_id)
    /\ UNCHANGED <<disk, plugins, methods, schemas, rl, life_ops, mgrVars>>

\* MethodRegistry::register
MethodRegistry_register(plugin_id, method_name) ==
    /\ UNCHANGED <<nonCallVars, callVars>>
    /\ ~is_registered(plugin_id, method_name)
    /\ methods' = methods \cup {<<plugin_id, method_name>>}
    /\ UNCHANGED <<disk, plugins, permissions, schemas, rl, life_ops, mgrVars>>

\* MethodRegistry::unregister_all
MethodRegistry_unregister_all(plugin_id) ==
    /\ UNCHANGED <<nonCallVars, callVars>>
    /\ \E m \in methods : m[1] = plugin_id
    /\ methods' = {m \in methods : m[1] # plugin_id}
    /\ UNCHANGED <<disk, plugins, permissions, schemas, rl, life_ops, mgrVars>>

\* PermissionChecker::check_call_permission, step 1 (also the first statement
\* of validate_call when `full`): has_permission under permissions.read()
CheckPermission(caller, target, method, full) ==
    /\ UNCHANGED <<nonCallVars, lifeVars>>
    /\ vc.pc = "idle"
    /\ LET args == [IdleCheck EXCEPT !.caller = caller, !.target = target,
                                     !.method = method, !.full = full]
       IN IF has_permission(caller, CallPermission(target, method))
          THEN vc' = [args EXCEPT !.pc = "method"]
          ELSE vc' = [args EXCEPT !.result = "PermissionDenied"]
    /\ vc' # vc
    /\ UNCHANGED <<call_stack, push_result>>

\* step 2 that returns Ok without looking the method up
CheckMethod_NoLookup ==
    /\ UNCHANGED <<nonCallVars, lifeVars>>
    /\ vc.pc = "method"
    /\ vc' = IF vc.full THEN [vc EXCEPT !.pc = "depth"]
             ELSE [vc EXCEPT !.pc = "idle", !.result = "Ok"]
    /\ UNCHANGED <<call_stack, push_result>>

\* PermissionChecker::check_call_permission, step 2: is_registered under
\* methods.read()
CheckMethod ==
    /\ UNCHANGED <<nonCallVars, lifeVars>>
    /\ vc.pc = "method"
    /\ vc' = IF ~is_registered(vc.target, vc.method)
             THEN [vc EXCEPT !.pc = "idle", !.result = "MethodNotExposed"]
             ELSE IF vc.full THEN [vc EXCEPT !.pc = "depth"]
             ELSE [vc EXCEPT !.pc = "idle", !.result = "Ok"]
    /\ UNCHANGED <<call_stack, push_result>>

\* the Result of CallStack::push(plugin_id) on a stack
PushResult(cs, plugin_id) ==
    IF Len(cs.stack) >= cs.max_depth THEN "CallDepthExceeded"
    ELSE IF \E i \in 1..Len(cs.stack) : cs.stack[i] = plugin_id THEN "CircularCall"
    ELSE "Ok"

\* the stack after CallStack::push(plugin_id)
PushStack(cs, plugin_id) ==
    IF PushResult(cs, plugin_id) = "Ok"
    THEN [cs EXCEPT !.stack = Append(@, plugin_id)]
    ELSE cs

\* PermissionChecker::check_call_depth: push on a clone of the stack
check_call_depth(cs, target_plugin) == PushResult(cs, target_plugin)

\* PermissionChecker::validate_call, after check_call_permission
CheckDepth ==
    /\ UNCHANGED <<nonCallVars, lifeVars>>
    /\ vc.pc = "depth"
    /\ vc' = [vc EXCEPT !.pc = "idle",
                        !.result = check_call_depth(call_stack, vc.target)]
    /\ UNCHANGED <<call_stack, push_result>>

\* validate_call borrows the stack until it returns
StackBorrowed == vc.full /\ vc.pc # "idle"

\* a push that does not look for the plugin in the chain
CallStack_push_NoCycleCheck(plugin_id) ==
    /\ UNCHANGED <<nonCallVars, lifeVars>>
    /\ ~StackBorrowed
    /\ IF Len(call_stack.stack) >= call_stack.max_depth
       THEN /\ push_result' = "CallDepthExceeded"
            /\ UNCHANGED call_stack
       ELSE /\ push_result' = "Ok"
            /\ call_stack' = [call_stack EXCEPT !.stack = Append(@, plugin_id)]
    /\ UNCHANGED vc

\* CallStack::push
CallStack_push(plugin_id) ==
    /\ UNCHANGED <<nonCallVars, lifeVars>>
    /\ ~StackBorrowed
    /\ push_result' = PushResult(call_stack, plugin_id)
    /\ call_stack' = PushStack(call_stack, plugin_id)
    /\ UNCHANGED vc

\* CallStack::pop
CallStack_pop ==
    /\ UNCHANGED <<nonCallVars, lifeVars>>
    /\ ~StackBorrowed
    /\ call_stack.stack # << >>
    /\ call_stack' = [call_stack EXCEPT !.stack = SubSeq(@, 1, Len(@) - 1)]
    /\ push_result' = "none"
    /\ UNCHANGED vc

NextCall ==
    \/ \E p \in Plugins, strs \in PermissionLists : register_permissions(p, strs)
    \/ \E p \in Plugins : unregister_permissions(p)
    \/ \E p \in Plugins : MethodRegistry_register(p, "get")
    \/ \E p \in Plugins : MethodRegistry_unregister_all(p)
    \/ \E caller \in Plugins, target \in Plugins, method \in MethodNames,
          full \in BOOLEAN : CheckPermission(caller, target, method, full)
    \/ CheckMethod
    \/ CheckDepth
    \/ \E p \in ChainPlugins : CallStack_push(p)
    \/ CallStack_pop

\* ------------------------------------------------------------------------
\* Fetch manager (plugin/sandbox/fetch.rs): RequestManager, RequestGuard and
\* secure_fetch_with_options
\* ------------------------------------------------------------------------
MAX_CONCURRENT_REQUESTS == 10

FetchTasks == {1, 2}

\* the locals of a caller: the value start_request loaded, the guard it owns
\* ("none", "held", "released"), the client its request went through, the
\* number of end_request calls its guard made
IdleFetch == [pc |-> "idle", current |-> 0, guard |-> "none", result |-> "none",
              sent |-> "none", releases |-> 0]

\* RequestManager::new_with_fallback: the client of the first constructor that
\* succeeds, None when both fail
new_with_fallback(primary_ok, fallback_ok) ==
    [client |-> IF primary_ok THEN "primary"
                ELSE IF fallback_ok THEN "fallback" ELSE "none",
     active_requests |-> 0]

\* a manager as constructed, with in_flight requests of other callers that
\* hold a slot
InitFetchWith(primary_ok, fallback_ok, in_flight) ==
    /\ fm = [new_with_fallback(primary_ok, fallback_ok)
                EXCEPT !.active_requests = in_flight]
    /\ ft = [r \in FetchTasks |-> IdleFetch]
    /\ fetch_bg = in_flight

InitFetch ==
    \E primary_ok \in BOOLEAN, fallback_ok \in BOOLEAN :
       \E in_flight \in {0, MAX_CONCURRENT_REQUESTS - 1} :
          InitFetchWith(primary_ok, fallback_ok, in_flight)

\* RequestManager::end_request: fetch_update that subtracts one unless the
\* counter is zero
end_request(n) == IF n > 0 THEN n - 1 ELSE n

\* Drop for RequestGuard (and RequestGuard::release)
RequestGuard_drop(guard) == IF guard = "held" THEN "released" ELSE guard

\* a caller returns from secure_fetch_with_options: its guard goes out of
\* scope
FetchReturn(r, result) ==
    /\ ft' = [ft EXCEPT ![r].pc = "done", ![r].result = result,
                        ![r].guard = RequestGuard_drop(@),
                        ![r].releases = IF ft[r].guard = "held" THEN @ + 1 ELSE @]
    /\ fm' = IF ft[r].guard = "held"
             THEN [fm EXCEPT !.active_requests = end_request(@)]
             ELSE fm

\* a caller calls RequestManager::start_request itself
RawStart(r) ==
    /\ UNCHANGED nonFetchVars
    /\ ft[r].pc \in {"idle", "done"}
    /\ ft' = [ft EXCEPT ![r] = [IdleFetch EXCEPT !.pc = "raw_load"]]
    /\ UNCHANGED <<fm, fetch_bg>>

\* a caller calls RequestManager::end_request itself
RawEnd ==
    /\ UNCHANGED nonFetchVars
    /\ fm' = [fm EXCEPT !.active_requests = end_request(@)]
    /\ UNCHANGED <<ft, fetch_bg>>

\* secure_fetch_with_options: UrlSecurityChecker::check_url, then
\* RequestGuard::acquire
FetchBegin(r, url_ok) ==
    /\ UNCHANGED nonFetchVars
    /\ ft[r].pc \in {"idle", "done"}
    /\ ft' = [ft EXCEPT ![r] = IF url_ok THEN [IdleFetch EXCEPT !.pc = "load"]
                                ELSE [IdleFetch EXCEPT !.pc = "done",
                                                       !.result = "InvalidUrl"]]
    /\ UNCHANGED <<fm, fetch_bg>>

\* start_request that never answers TooManyRequests
StartLoad_NoLimit(r) ==
    /\ UNCHANGED nonFetchVars
    /\ ft[r].pc \in {"load", "raw_load"}
    /\ ft' = [ft EXCEPT ![r].current = fm.active_requests,
                        ![r].pc = IF ft[r].pc = "load" THEN "cas" ELSE "raw_cas"]
    /\ UNCHANGED <<fm, fetch_bg>>

\* RequestManager::start_request: the load of the counter and the test
\* against MAX_CONCURRENT_REQUESTS
StartLoad(r) ==
    /\ UNCHANGED nonFetchVars
    /\ ft[r].pc \in {"load", "raw_load"}
    /\ ft' = [ft EXCEPT ![r] =
                IF fm.active_requests >= MAX_CONCURRENT_REQUESTS
                THEN [@ EXCEPT !.current = fm.active_requests, !.pc = "done",
                               !.result = "TooManyRequests"]
                ELSE [@ EXCEPT !.current = fm.active_requests,
                               !.pc = IF ft[r].pc = "load" THEN "cas" ELSE "raw_cas"]]
    /\ UNCHANGED <<fm, fetch_bg>>

\* RequestManager::start_request: compare_exchange_weak(current, current + 1),
\* which fails when the counter has moved and may fail spuriously; a failure
\* goes back to the load.  On success RequestGuard::acquire builds the guard.
StartCas(r, spurious) ==
    /\ UNCHANGED nonFetchVars
    /\ ft[r].pc \in {"cas", "raw_cas"}
    /\ IF fm.active_requests = ft[r].current /\ ~spurious
       THEN /\ fm' = [fm EXCEPT !.active_requests = ft[r].current + 1]
            /\ ft' = [ft EXCEPT ![r] =
                        IF ft[r].pc = "cas"
                        THEN [@ EXCEPT !.pc = "dns", !.guard = "held"]
                        ELSE [@ EXCEPT !.pc = "done", !.result = "Ok"]]
       ELSE /\ ft' = [ft EXCEPT ![r].pc = IF ft[r].pc = "cas" THEN "load"
                                          ELSE "raw_load"]
            /\ UNCHANGED fm
    /\ UNCHANGED fetch_bg

FetchErrors == {"DnsError", "PrivateIp"}

\* check_resolved_ip whose error path keeps the slot
ResolveDns_Leak(r, outcome) ==
    /\ UNCHANGED nonFetchVars
    /\ ft[r].pc = "dns"
    /\ IF outcome = "Ok"
       THEN /\ ft' = [ft EXCEPT ![r].pc = "build"]
            /\ UNCHANGED fm
       ELSE /\ ft' = [ft EXCEPT ![r].pc = "done", ![r].result = outcome]
            /\ UNCHANGED fm
    /\ UNCHANGED fetch_bg

\* secure_fetch_with_options: UrlSecurityChecker::check_resolved_ip(..).await?
ResolveDns(r, outcome) ==
    /\ UNCHANGED nonFetchVars
    /\ ft[r].pc = "dns"
    /\ IF outcome = "Ok"
       THEN /\ ft' = [ft EXCEPT ![r].pc = "build"]
            /\ UNCHANGED fm
       ELSE FetchReturn(r, outcome)
    /\ UNCHANGED fetch_bg

\* do_fetch_with_options: reqwest::Client::builder()...build() of the client
\* of this request; the manager's client is not looked at
BuildClient(r, built) ==
    /\ UNCHANGED nonFetchVars
    /\ ft[r].pc = "build"
    /\ IF built
       THEN /\ ft' = [ft EXCEPT ![r].pc = "send", ![r].sent = "temporary"]
            /\ UNCHANGED fm
       ELSE FetchReturn(r, "NetworkError")
    /\ UNCHANGED fetch_bg

\* do_fetch_with_options: request.send().await and the reading of the body
SendDone(r, outcome) ==
    /\ UNCHANGED nonFetchVars
    /\ ft[r].pc = "send"
    /\ FetchReturn(r, outcome)
    /\ UNCHANGED fetch_bg

\* the future of secure_fetch_with_options is dropped at one of its awaits
FetchCancel(r) ==
    /\ UNCHANGED nonFetchVars
    /\ ft[r].pc \in {"dns", "send"}
    /\ FetchReturn(r, "Cancelled")
    /\ UNCHANGED fetch_bg

\* a request of another caller ends and its guard is dropped
OtherRequestEnds ==
    /\ UNCHANGED nonFetchVars
    /\ fetch_bg > 0
    /\ fetch_bg' = fetch_bg - 1
    /\ fm' = [fm EXCEPT !.active_requests = end_request(@)]
    /\ UNCHANGED ft

\* callers of start_request and end_request
NextFetchManager ==
    \/ \E r \in FetchTasks : RawStart(r)
    \/ \E r \in FetchTasks : StartLoad(r)
    \/ \E r \in FetchTasks, spurious \in BOOLEAN : StartCas(r, spurious)
    \/ RawEnd

\* callers of secure_fetch_with_options
NextFetch ==
    \/ \E r \in FetchTasks, url_ok \in BOOLEAN : FetchBegin(r, url_ok)
    \/ \E r \in FetchTasks : StartLoad(r)
    \/ \E r \in FetchTasks, spurious \in BOOLEAN : StartCas(r, spurious)
    \/ \E r \in FetchTasks, outcome \in {"Ok"} \cup FetchErrors : ResolveDns(r, outcome)
    \/ \E r \in FetchTasks, built \in BOOLEAN : BuildClient(r, built)
    \/ \E r \in FetchTasks, outcome \in {"Ok", "NetworkError", "ResponseTooLarge"} :
          SendDone(r, outcome)
    \/ \E r \in FetchTasks : FetchCancel(r)
    \/ OtherRequestEnds

\* ------------------------------------------------------------------------
\* Sandbox runtime (plugin/runtime.rs): run_with_limits, InterruptController
\* and Watchdog
\* ------------------------------------------------------------------------
RunIds == 1..MaxRuns

\* InterruptController::new
NewController == [interrupted |-> FALSE, started |-> FALSE]

\* a watchdog task: its position, whether its sleep(timeout) is over, whether
\* the stop signal was sent, whether it took the sleep branch
NoWatchdog == [pc |-> "unspawned", sleep_over |-> FALSE, stop |-> FALSE, fired |-> FALSE]

\* the locals of run_with_limits: the run, how the evaluation ended, whether
\* now - start exceeds the timeout, the cached flag, the value returned
IdleRun == [pc |-> "idle", run |-> 0, eval |-> "none", overtime |-> FALSE,
            was_interrupted |-> FALSE, ret |-> "none"]

\* SandboxRuntime::new
InitWatchdog ==
    /\ ic = NewController
    /\ rw = IdleRun
    /\ wdog = [k \in RunIds |-> NoWatchdog]
    /\ runs = 0

\* run_with_limits: Watchdog::new and Watchdog::start, which spawns the task
RunStartWatchdog ==
    /\ UNCHANGED nonWdVars
    /\ rw.pc = "idle"
    /\ runs < MaxRuns
    /\ runs' = runs + 1
    /\ wdog' = [wdog EXCEPT ![runs + 1].pc = "select"]
    /\ rw' = [IdleRun EXCEPT !.pc = "start", !.run = runs + 1]
    /\ UNCHANGED ic

\* run_with_limits: start_execution, i.e. InterruptController::start
RunStartExecution ==
    /\ UNCHANGED nonWdVars
    /\ rw.pc = "start"
    /\ ic' = [interrupted |-> FALSE, started |-> TRUE]
    /\ rw' = [rw EXCEPT !.pc = "executing", !.eval = "running"]
    /\ UNCHANGED <<wdog, runs>>

\* the sleep(timeout) of a watchdog task is over
SleepElapses(k) ==
    /\ UNCHANGED nonWdVars
    /\ wdog[k].pc = "select"
    /\ ~wdog[k].sleep_over
    /\ wdog' = [wdog EXCEPT ![k].sleep_over = TRUE]
    /\ UNCHANGED <<ic, rw, runs>>

\* the evaluation has run for more than the timeout since start_execution,
\* which comes after the watchdog's sleep began
TimeoutExceeded ==
    /\ UNCHANGED nonWdVars
    /\ rw.pc = "executing"
    /\ ~rw.overtime
    /\ wdog[rw.run].sleep_over \/ wdog[rw.run].pc # "select"
    /\ rw' = [rw EXCEPT !.overtime = TRUE]
    /\ UNCHANGED <<ic, wdog, runs>>

\* the watchdog task is polled: tokio::select!, biased towards stop_rx
WatchdogSelect(k) ==
    /\ UNCHANGED nonWdVars
    /\ wdog[k].pc = "select"
    /\ wdog[k].stop \/ wdog[k].sleep_over
    /\ wdog' = [wdog EXCEPT ![k] =
                  IF wdog[k].stop THEN [@ EXCEPT !.pc = "done"]
                  ELSE [@ EXCEPT !.pc = "interrupt", !.fired = TRUE]]
    /\ UNCHANGED <<ic, rw, runs>>

\* the sleep branch of the watchdog task: controller.interrupt()
WatchdogInterrupt(k) ==
    /\ UNCHANGED nonWdVars
    /\ wdog[k].pc = "interrupt"
    /\ ic' = [ic EXCEPT !.interrupted = TRUE]
    /\ wdog' = [wdog EXCEPT ![k].pc = "done"]
    /\ UNCHANGED <<rw, runs>>

\* context.with(f) returns by itself, with a value or a JS error
EvalFinish(outcome) ==
    /\ UNCHANGED nonWdVars
    /\ rw.pc = "executing"
    /\ rw' = [rw EXCEPT !.pc = "stop", !.eval = outcome]
    /\ UNCHANGED <<ic, wdog, runs>>

\* the interrupt handler, InterruptController::should_interrupt, returns true:
\* the flag is set, or its own time check finds the timeout exceeded and sets
\* the flag; the evaluation returns an error
EvalInterrupted ==
    /\ UNCHANGED nonWdVars
    /\ rw.pc = "executing"
    /\ ic.interrupted \/ (ic.started /\ rw.overtime)
    /\ ic' = [ic EXCEPT !.interrupted = TRUE]
    /\ rw' = [rw EXCEPT !.pc = "stop", !.eval = "interrupted"]
    /\ UNCHANGED <<wdog, runs>>

\* run_with_limits: watchdog.stop()
RunStopWatchdog ==
    /\ UNCHANGED nonWdVars
    /\ rw.pc = "stop"
    /\ wdog' = [wdog EXCEPT ![rw.run].stop = TRUE]
    /\ rw' = [rw EXCEPT !.pc = "load"]
    /\ UNCHANGED <<ic, runs>>

\* run_with_limits that resets the controller before it reads the flag
RunLoadFlag_AfterReset ==
    /\ UNCHANGED nonWdVars
    /\ rw.pc = "load"
    /\ ic' = NewController
    /\ rw' = [rw EXCEPT !.pc = "reset", !.was_interrupted = FALSE]
    /\ UNCHANGED <<wdog, runs>>

\* run_with_limits: was_interrupted = interrupted.load()
RunLoadFlag ==
    /\ UNCHANGED nonWdVars
    /\ rw.pc = "load"
    /\ rw' = [rw EXCEPT !.pc = "reset", !.was_interrupted = ic.interrupted]
    /\ UNCHANGED <<ic, wdog, runs>>

\* run_with_limits: self.reset(), then ExecutionTimeout when the cached flag
\* is set and the result of the evaluation otherwise
RunResetReturn ==
    /\ UNCHANGED nonWdVars
    /\ rw.pc = "reset"
    /\ ic' = NewController
    /\ rw' = [rw EXCEPT !.pc = "idle",
                        !.ret = IF rw.was_interrupted THEN "ExecutionTimeout"
                                ELSE IF rw.eval = "ok" THEN "Ok" ELSE "JsExecution"]
    /\ UNCHANGED <<wdog, runs>>

NextWatchdog ==
    \/ RunStartWatchdog
    \/ RunStartExecution
    \/ \E k \in RunIds : SleepElapses(k)
    \/ TimeoutExceeded
    \/ \E k \in RunIds : WatchdogSelect(k)
    \/ \E k \in RunIds : WatchdogInterrupt(k)
    \/ \E outcome \in {"ok", "js_error"} : EvalFinish(outcome)
    \/ EvalInterrupted
    \/ RunStopWatchdog
    \/ RunLoadFlag
    \/ RunResetReturn

\* QuickJS keeps calling the interrupt handler while it evaluates, and the
\* runtime keeps polling the caller and the watchdog tasks
FairWatchdog ==
    /\ WF_vars(EvalInterrupted)
    /\ WF_vars(RunStopWatchdog \/ RunLoadFlag \/ RunResetReturn)
    /\ \A k \in RunIds : WF_vars(WatchdogSelect(k) \/ WatchdogInterrupt(k))

\* ------------------------------------------------------------------------
\* Cache layer (reliability/cache.rs): CacheLayer over a moka cache and the
\* reverse index plugin_keys
\* ------------------------------------------------------------------------
CacheCallers == {1, 2}

\* plugin ids hold no ':' (the permission and event name syntax plugin:<id>:..
\* relies on it); a method name is any string, given as its pieces
CachePlugins == {"a", "b"}
CacheMethods == {<<"m">>, <<"m", ":", "n">>}
ParamsHashes == {"7"}

CacheKeys == [plugin_id : CachePlugins, method : CacheMethods, params_hash : ParamsHashes]

\* CacheKey::to_string_key: format!("{}:{}:{}", plugin_id, method, params_hash)
to_string_key(key) ==
    <<key.plugin_id, ":">> \o key.method \o <<":", key.params_hash>>

KeyStrings == {to_string_key(k) : k \in CacheKeys}

\* the key string is the string of a key of plugin p
BelongsTo(s, p) == \E k \in CacheKeys : k.plugin_id = p /\ to_string_key(k) = s

NoValue == "None"
CachedValue == "value"

NoKey == [plugin_id |-> "none", method |-> << >>, params_hash |-> "0"]

IdleCacheCall == [pc |-> "idle", op |-> "none", key |-> NoKey, plugin |-> "none",
                  todo |-> {}, before |-> [s \in KeyStrings |-> NoValue],
                  result |-> "None"]

\* CacheLayer::new
InitCache ==
    /\ cache = [s \in KeyStrings |-> NoValue]
    /\ plugin_keys = [p \in CachePlugins |-> [present |-> FALSE, keys |-> {}]]
    /\ cc = [c \in CacheCallers |-> IdleCacheCall]
    /\ cdone = IdleCacheCall
    /\ cache_ops = 0

\* register_key: plugin_keys.entry(plugin_id).or_default().insert(key string),
\* without touching the index
register_key_Forgets(index, key) == index

\* register_key: plugin_keys.entry(plugin_id).or_default().insert(key string)
register_key(index, key) ==
    [index EXCEPT ![key.plugin_id] =
        [present |-> TRUE, keys |-> @.keys \cup {to_string_key(key)}]]

\* unregister_key: removes the key string from the plugin's set, if the
\* plugin has one
unregister_key(index, key) ==
    IF index[key.plugin_id].present
    THEN [index EXCEPT ![key.plugin_id].keys = @ \ {to_string_key(key)}]
    ELSE index

\* a call returns: the caller is idle again and the call is the last one done
CacheReturn(c, result) ==
    /\ cc' = [cc EXCEPT ![c] = IdleCacheCall]
    /\ cdone' = [cc[c] EXCEPT !.result = result]

\* a caller enters one of the operations of the layer
CacheCall(c, op, key, plugin) ==
    /\ UNCHANGED nonCacheVars
    /\ cc[c].pc = "idle"
    /\ cache_ops < MaxCacheOps
    /\ cache_ops' = cache_ops + 1
    /\ cc' = [cc EXCEPT ![c] = [pc |-> op, op |-> op, key |-> key, plugin |-> plugin,
                                todo |-> {}, before |-> cache, result |-> "None"]]
    /\ UNCHANGED <<cache, plugin_keys, cdone>>

\* set: cache.insert
SetInsert(c) ==
    /\ UNCHANGED nonCacheVars
    /\ cc[c].pc = "set"
    /\ cache' = [cache EXCEPT ![to_string_key(cc[c].key)] = CachedValue]
    /\ cc' = [cc EXCEPT ![c].pc = "register"]
    /\ UNCHANGED <<plugin_keys, cdone, cache_ops>>

\* get_or_compute up to the computation: the cached value is returned unless
\* force is set
GetOrComputeLookup(c, force) ==
    /\ UNCHANGED nonCacheVars
    /\ cc[c].pc = "get_or_compute"
    /\ IF ~force /\ cache[to_string_key(cc[c].key)] # NoValue
       THEN CacheReturn(c, "Ok")
       ELSE /\ cc' = [cc EXCEPT ![c].pc = "compute"]
            /\ UNCHANGED cdone
    /\ UNCHANGED <<cache, plugin_keys, cache_ops>>

\* get_or_compute: compute().await and, when it succeeded, cache.insert
GetOrComputeInsert(c, computed) ==
    /\ UNCHANGED nonCacheVars
    /\ cc[c].pc = "compute"
    /\ IF computed
       THEN /\ cache' = [cache EXCEPT ![to_string_key(cc[c].key)] = CachedValue]
            /\ cc' = [cc EXCEPT ![c].pc = "register"]
            /\ UNCHANGED cdone
       ELSE /\ CacheReturn(c, "SerializationError")
            /\ UNCHANGED cache
    /\ UNCHANGED <<plugin_keys, cache_ops>>

\* set and get_or_compute: register_key after the insert, and the return
RegisterReturn(c) ==
    /\ UNCHANGED nonCacheVars
    /\ cc[c].pc = "register"
    /\ plugin_keys' = register_key(plugin_keys, cc[c].key)
    /\ CacheReturn(c, "Ok")
    /\ UNCHANGED <<cache, cache_ops>>

\* invalidate: cache.invalidate
InvalidateRemove(c) ==
    /\ UNCHANGED nonCacheVars
    /\ cc[c].pc = "invalidate"
    /\ cache' = [cache EXCEPT ![to_string_key(cc[c].key)] = NoValue]
    /\ cc' = [cc EXCEPT ![c].pc = "unregister"]
    /\ UNCHANGED <<plugin_keys, cdone, cache_ops>>

\* invalidate: unregister_key and the return
UnregisterReturn(c) ==
    /\ UNCHANGED nonCacheVars
    /\ cc[c].pc = "unregister"
    /\ plugin_keys' = unregister_key(plugin_keys, cc[c].key)
    /\ CacheReturn(c, "Ok")
    /\ UNCHANGED <<cache, cache_ops>>

\* invalidate_plugin: plugin_keys.remove(plugin_id) into keys_to_invalidate
InvalidatePluginTake(c) ==
    /\ UNCHANGED nonCacheVars
    /\ cc[c].pc = "invalidate_plugin"
    /\ plugin_keys' = [plugin_keys EXCEPT ![cc[c].plugin] = [present |-> FALSE, keys |-> {}]]
    /\ cc' = [cc EXCEPT ![c].pc = "each_key", ![c].todo = plugin_keys[cc[c].plugin].keys]
    /\ UNCHANGED <<cache, cdone, cache_ops>>

\* invalidate_plugin: one round of the loop over keys_to_invalidate, or the
\* return after the last one
InvalidatePluginEach(c) ==
    /\ UNCHANGED nonCacheVars
    /\ cc[c].pc = "each_key"
    /\ IF cc[c].todo = {}
       THEN /\ CacheReturn(c, "Ok")
            /\ UNCHANGED cache
       ELSE \E s \in cc[c].todo :
               /\ cache' = [cache EXCEPT ![s] = NoValue]
               /\ cc' = [cc EXCEPT ![c].todo = @ \ {s}]
               /\ UNCHANGED cdone
    /\ UNCHANGED <<plugin_keys, cache_ops>>

\* clear: cache.invalidate_all
ClearCache(c) ==
    /\ UNCHANGED nonCacheVars
    /\ cc[c].pc = "clear"
    /\ cache' = [s \in KeyStrings |-> NoValue]
    /\ cc' = [cc EXCEPT ![c].pc = "clear_index"]
    /\ UNCHANGED <<plugin_keys, cdone, cache_ops>>

\* clear: plugin_keys.clear and the return
ClearIndexReturn(c) ==
    /\ UNCHANGED nonCacheVars
    /\ cc[c].pc = "clear_index"
    /\ plugin_keys' = [p \in CachePlugins |-> [present |-> FALSE, keys |-> {}]]
    /\ CacheReturn(c, "Ok")
    /\ UNCHANGED <<cache, cache_ops>>

\* the moka cache drops an entry on its own: time to live, time to idle or
\* capacity
Expire(s) ==
    /\ UNCHANGED nonCacheVars
    /\ cache[s] # NoValue
    /\ cache' = [cache EXCEPT ![s] = NoValue]
    /\ UNCHANGED <<plugin_keys, cc, cdone, cache_ops>>

CacheIdle == \A c \in CacheCallers : cc[c].pc = "idle"

\* the operations called one after the other: a call starts when the one
\* before it has returned
NextCacheSeq ==
    \/ \E c \in CacheCallers, k \in CacheKeys :
          CacheIdle /\ \E op \in {"set", "get_or_compute", "invalidate"} :
                          CacheCall(c, op, k, k.plugin_id)
    \/ \E c \in CacheCallers, p \in CachePlugins :
          CacheIdle /\ CacheCall(c, "invalidate_plugin", NoKey, p)
    \/ \E c \in CacheCallers : CacheIdle /\ CacheCall(c, "clear", NoKey, "none")
    \/ \E c \in CacheCallers : SetInsert(c)
    \/ \E c \in CacheCallers, force \in BOOLEAN : GetOrComputeLookup(c, force)
    \/ \E c \in CacheCallers, computed \in BOOLEAN : GetOrComputeInsert(c, computed)
    \/ \E c \in CacheCallers : RegisterReturn(c)
    \/ \E c \in CacheCallers : InvalidateRemove(c)
    \/ \E c \in CacheCallers : UnregisterReturn(c)
    \/ \E c \in CacheCallers : InvalidatePluginTake(c)
    \/ \E c \in CacheCallers : InvalidatePluginEach(c)
    \/ \E c \in CacheCallers : ClearCache(c)
    \/ \E c \in CacheCallers : ClearIndexReturn(c)
    \/ \E s \in KeyStrings : Expire(s)

\* the operations called by tasks that run side by side: a caller starts its
\* next call when its own last one has returned
NextCache ==
    \/ \E c \in CacheCallers, k \in CacheKeys :
          \E op \in {"set", "get_or_compute", "invalidate"} :
              CacheCall(c, op, k, k.plugin_id)
    \/ \E c \in CacheCallers, p \in CachePlugins :
          CacheCall(c, "invalidate_plugin", NoKey, p)
    \/ \E c \in CacheCallers : CacheCall(c, "clear", NoKey, "none")
    \/ \E c \in CacheCallers : SetInsert(c)
    \/ \E c \in CacheCallers, force \in BOOLEAN : GetOrComputeLookup(c, force)
    \/ \E c \in CacheCallers, computed \in BOOLEAN : GetOrComputeInsert(c, computed)
    \/ \E c \in CacheCallers : RegisterReturn(c)
    \/ \E c \in CacheCallers : InvalidateRemove(c)
    \/ \E c \in CacheCallers : UnregisterReturn(c)
    \/ \E c \in CacheCallers : InvalidatePluginTake(c)
    \/ \E c \in CacheCallers : InvalidatePluginEach(c)
    \/ \E c \in CacheCallers : ClearCache(c)
    \/ \E c \in CacheCallers : ClearIndexReturn(c)
    \/ \E s \in KeyStrings : Expire(s)

\* ------------------------------------------------------------------------
\* Secure extractor (security/extractor.rs): extract, create_backup,
\* atomic_replace over the directories it touches
\* ------------------------------------------------------------------------
BACKUP_VERSIONS == 3

\* what a directory holds: nothing at all, the files of a version, or part of
\* them after a removal or a copy that stopped half way
Absent == "absent"
Partial == "partial"
VersionOf(n) == IF n = 0 THEN "v0" ELSE IF n = 1 THEN "v1" ELSE IF n = 2 THEN "v2" ELSE "v3"

IdleExtract == [pc |-> "idle", valid |-> TRUE, version |-> "v0", i |-> 0,
                before |-> Absent, result |-> "None"]

\* the directories before the first extraction: the target is missing or
\* holds an installed version, and there is no backup yet
InitExtract ==
    /\ target_dir \in {Absent, VersionOf(0)}
    /\ backups = [b \in 1..BACKUP_VERSIONS |-> Absent]
    /\ temp_dir = Absent
    /\ ex = IdleExtract
    /\ extracts = 0

\* extract returns; the TempDir is dropped, which removes what is left of it
ExtractReturn(result) ==
    /\ ex' = [ex EXCEPT !.pc = "done", !.result = result]
    /\ temp_dir' = Absent

\* extract is called with an archive: File::open and ZipArchive::new
ExtractOpen(valid, opened) ==
    /\ UNCHANGED nonExtractVars
    /\ ex.pc \in {"idle", "done"}
    /\ extracts < MaxExtracts
    /\ extracts' = extracts + 1
    /\ ex' = [pc |-> IF opened THEN "pre_validate" ELSE "done", valid |-> valid,
              version |-> VersionOf(extracts + 1), i |-> 0, before |-> target_dir,
              result |-> IF opened THEN "None" ELSE "IoError"]
    /\ UNCHANGED <<target_dir, backups, temp_dir>>

\* pre_validate: entry count, path traversal, symlinks, extensions and sizes
PreValidate ==
    /\ UNCHANGED nonExtractVars
    /\ ex.pc = "pre_validate"
    /\ IF ex.valid
       THEN /\ ex' = [ex EXCEPT !.pc = "create_temp"]
            /\ UNCHANGED temp_dir
       ELSE ExtractReturn("Rejected")
    /\ UNCHANGED <<target_dir, backups, extracts>>

\* TempDir::new
CreateTemp(created) ==
    /\ UNCHANGED nonExtractVars
    /\ ex.pc = "create_temp"
    /\ IF created
       THEN /\ ex' = [ex EXCEPT !.pc = "extract_to_temp"]
            /\ temp_dir' = Partial
       ELSE ExtractReturn("IoError")
    /\ UNCHANGED <<target_dir, backups, extracts>>

\* extract_to_temp, and the test target_dir.exists() that follows it
ExtractToTemp(written) ==
    /\ UNCHANGED nonExtractVars
    /\ ex.pc = "extract_to_temp"
    /\ IF written
       THEN /\ temp_dir' = ex.version
            /\ ex' = [ex EXCEPT !.pc = IF target_dir # Absent THEN "rotate_oldest"
                                       ELSE "replace_remove"]
       ELSE ExtractReturn("IoError")
    /\ UNCHANGED <<target_dir, backups, extracts>>

\* rotate_backups: the oldest backup is removed
RotateOldest(removed) ==
    /\ UNCHANGED nonExtractVars
    /\ ex.pc = "rotate_oldest"
    /\ IF backups[BACKUP_VERSIONS] = Absent
       THEN /\ ex' = [ex EXCEPT !.pc = "rotate_rename", !.i = BACKUP_VERSIONS - 1]
            /\ UNCHANGED <<backups, temp_dir>>
       ELSE IF removed
            THEN /\ backups' = [backups EXCEPT ![BACKUP_VERSIONS] = Absent]
                 /\ ex' = [ex EXCEPT !.pc = "rotate_rename", !.i = BACKUP_VERSIONS - 1]
                 /\ UNCHANGED temp_dir
            ELSE /\ backups' = [backups EXCEPT ![BACKUP_VERSIONS] = Partial]
                 /\ ExtractReturn("IoError")
    /\ UNCHANGED <<target_dir, extracts>>

\* rotate_backups: one round of the loop renaming backup i to backup i + 1
RotateRename(renamed) ==
    /\ UNCHANGED nonExtractVars
    /\ ex.pc = "rotate_rename"
    /\ IF ex.i = 0
       THEN /\ ex' = [ex EXCEPT !.pc = "backup_copy"]
            /\ UNCHANGED <<backups, temp_dir>>
       ELSE IF backups[ex.i] = Absent
            THEN /\ ex' = [ex EXCEPT !.i = @ - 1]
                 /\ UNCHANGED <<backups, temp_dir>>
            ELSE IF renamed
                 THEN /\ backups' = [backups EXCEPT ![ex.i + 1] = backups[ex.i],
                                                    ![ex.i] = Absent]
                      /\ ex' = [ex EXCEPT !.i = @ - 1]
                      /\ UNCHANGED temp_dir
                 ELSE /\ ExtractReturn("IoError")
                      /\ UNCHANGED backups
    /\ UNCHANGED <<target_dir, extracts>>

\* create_backup after the rotation: copy_dir_recursive of the target into
\* backup 1
BackupCopy(copied) ==
    /\ UNCHANGED nonExtractVars
    /\ ex.pc = "backup_copy"
    /\ IF copied
       THEN /\ backups' = [backups EXCEPT ![1] = target_dir]
            /\ ex' = [ex EXCEPT !.pc = "replace_remove"]
            /\ UNCHANGED temp_dir
       ELSE /\ backups' = [backups EXCEPT ![1] = Partial]
            /\ ExtractReturn("IoError")
    /\ UNCHANGED <<target_dir, extracts>>

\* atomic_replace: remove_dir_all of an existing target
ReplaceRemove(removed) ==
    /\ UNCHANGED nonExtractVars
    /\ ex.pc = "replace_remove"
    /\ IF target_dir = Absent
       THEN /\ ex' = [ex EXCEPT !.pc = "replace_parent"]
            /\ UNCHANGED <<target_dir, temp_dir>>
       ELSE IF removed
            THEN /\ target_dir' = Absent
                 /\ ex' = [ex EXCEPT !.pc = "replace_parent"]
                 /\ UNCHANGED temp_dir
            ELSE /\ target_dir' \in {target_dir, Partial}
                 /\ ExtractReturn("IoError")
    /\ UNCHANGED <<backups, extracts>>

\* atomic_replace: create_dir_all of the parent
ReplaceParent(created) ==
    /\ UNCHANGED nonExtractVars
    /\ ex.pc = "replace_parent"
    /\ IF created
       THEN /\ ex' = [ex EXCEPT !.pc = "replace_rename"]
            /\ UNCHANGED temp_dir
       ELSE ExtractReturn("IoError")
    /\ UNCHANGED <<target_dir, backups, extracts>>

\* atomic_replace: fs::rename of the temp directory onto the target
ReplaceRename(renamed) ==
    /\ UNCHANGED nonExtractVars
    /\ ex.pc = "replace_rename"
    /\ IF renamed
       THEN /\ target_dir' = temp_dir
            /\ ExtractReturn("Ok")
       ELSE /\ ex' = [ex EXCEPT !.pc = "replace_copy"]
            /\ UNCHANGED <<target_dir, temp_dir>>
    /\ UNCHANGED <<backups, extracts>>

\* atomic_replace: copy_dir_recursive when the rename failed
ReplaceCopy(copied) ==
    /\ UNCHANGED nonExtractVars
    /\ ex.pc = "replace_copy"
    /\ target_dir' = IF copied THEN temp_dir ELSE Partial
    /\ ExtractReturn(IF copied THEN "Ok" ELSE "IoError")
    /\ UNCHANGED <<backups, extracts>>

NextExtract ==
    \/ \E valid \in BOOLEAN, opened \in BOOLEAN : ExtractOpen(valid, opened)
    \/ PreValidate
    \/ \E created \in BOOLEAN : CreateTemp(created)
    \/ \E written \in BOOLEAN : ExtractToTemp(written)
    \/ \E removed \in BOOLEAN : RotateOldest(removed)
    \/ \E renamed \in BOOLEAN : RotateRename(renamed)
    \/ \E copied \in BOOLEAN : BackupCopy(copied)
    \/ \E removed \in BOOLEAN : ReplaceRemove(removed)
    \/ \E created \in BOOLEAN : ReplaceParent(created)
    \/ \E renamed \in BOOLEAN : ReplaceRename(renamed)
    \/ \E copied \in BOOLEAN : ReplaceCopy(copied)

\* ------------------------------------------------------------------------
\* Retry executor (reliability/retry.rs): execute_with_context and
\* calculate_delay
\* ------------------------------------------------------------------------
\* what one call of the operation yields
OperationOutcomes == {"Ok", "Retryable", "NonRetryable"}

InitRetryStats == [total_retries |-> 0, successful_retries |-> 0,
                   failed_after_retries |-> 0, immediate_successes |-> 0,
                   non_retryable_errors |-> 0]

\* RetryExecutor::new with a valid configuration (the delays and the
\* multiplier of RetryConfig::default), and a caller about to call
\* execute_with_context: attempt = 0
InitRetry ==
    /\ retry_config \in [max_retries : 0..MaxRetriesBound,
                         initial_delay : {100}, max_delay : {5000}, multiplier : {2},
                         jitter_factor_percent : {20}, enable_jitter : BOOLEAN]
    /\ rc = [pc |-> "call", attempt |-> 0, outcomes |-> << >>, delay |-> 0,
             result |-> "None"]
    /\ retry_stats = InitRetryStats

Min(a, b) == IF a <= b THEN a ELSE b
Max(a, b) == IF a >= b THEN a ELSE b

\* multiplier.powi(n)
RECURSIVE Power(_, _)
Power(m, n) == IF n = 0 THEN 1 ELSE m * Power(m, n - 1)

\* calculate_delay before the jitter: initial_delay * multiplier ^ (attempt - 1)
\* with the exponent held to 20, capped at max_delay
CappedDelay(attempt) ==
    Min(retry_config.initial_delay * Power(retry_config.multiplier, Min(attempt - 1, 20)),
        retry_config.max_delay)

\* add_jitter: the delay moved by a random amount of at most jitter_factor of
\* it, held to 0 .. max_delay; the draw is given as the lowest, the middle or
\* the highest value of the range
add_jitter(delay_ms, draw) ==
    LET jitter_range == (delay_ms * retry_config.jitter_factor_percent) \div 100
        jitter == CASE draw = "low" -> 0 - jitter_range
                    [] draw = "high" -> jitter_range
                    [] OTHER -> 0
    IN Min(Max(delay_ms + jitter, 0), retry_config.max_delay)

\* calculate_delay
calculate_delay(attempt, draw) ==
    IF retry_config.enable_jitter
    THEN add_jitter(CappedDelay(attempt), draw)
    ELSE CappedDelay(attempt)

\* RetryCall with the test attempt > max_retries
RetryCall_OneMore(outcome, draw) ==
    /\ UNCHANGED nonRetryVars
    /\ rc.pc = "call"
    /\ UNCHANGED retry_config
    /\ LET called == [rc EXCEPT !.outcomes = Append(@, outcome)]
       IN CASE outcome = "Ok" ->
                 /\ rc' = [called EXCEPT !.pc = "done", !.result = "Ok"]
                 /\ retry_stats' = IF rc.attempt = 0
                                   THEN [retry_stats EXCEPT !.immediate_successes = @ + 1]
                                   ELSE [retry_stats EXCEPT !.successful_retries = @ + 1]
            [] outcome = "NonRetryable" ->
                 /\ rc' = [called EXCEPT !.pc = "done", !.result = "NonRetryable"]
                 /\ retry_stats' = [retry_stats EXCEPT !.non_retryable_errors = @ + 1]
            [] OTHER ->
                 IF rc.attempt > retry_config.max_retries
                 THEN /\ rc' = [called EXCEPT !.pc = "done",
                                              !.result = "MaxRetriesExceeded"]
                      /\ retry_stats' = [retry_stats EXCEPT !.failed_after_retries = @ + 1]
                 ELSE /\ rc' = [called EXCEPT !.pc = "sleep", !.attempt = @ + 1,
                                              !.delay = calculate_delay(rc.attempt + 1, draw)]
                      /\ retry_stats' = [retry_stats EXCEPT !.total_retries = @ + 1]

\* execute_with_context: one round of the loop up to the sleep: the operation
\* is called and its result matched
RetryCall(outcome, draw) ==
    /\ UNCHANGED nonRetryVars
    /\ rc.pc = "call"
    /\ UNCHANGED retry_config
    /\ LET called == [rc EXCEPT !.outcomes = Append(@, outcome)]
       IN CASE outcome = "Ok" ->
                 /\ rc' = [called EXCEPT !.pc = "done", !.result = "Ok"]
                 /\ retry_stats' = IF rc.attempt = 0
                                   THEN [retry_stats EXCEPT !.immediate_successes = @ + 1]
                                   ELSE [retry_stats EXCEPT !.successful_retries = @ + 1]
            [] outcome = "NonRetryable" ->
                 /\ rc' = [called EXCEPT !.pc = "done", !.result = "NonRetryable"]
                 /\ retry_stats' = [retry_stats EXCEPT !.non_retryable_errors = @ + 1]
            [] OTHER ->
                 IF rc.attempt >= retry_config.max_retries
                 THEN /\ rc' = [called EXCEPT !.pc = "done",
                                              !.result = "MaxRetriesExceeded"]
                      /\ retry_stats' = [retry_stats EXCEPT !.failed_after_retries = @ + 1]
                 ELSE /\ rc' = [called EXCEPT !.pc = "sleep", !.attempt = @ + 1,
                                              !.delay = calculate_delay(rc.attempt + 1, draw)]
                      /\ retry_stats' = [retry_stats EXCEPT !.total_retries = @ + 1]

\* execute_with_context: tokio::time::sleep(delay) has elapsed
RetrySleep ==
    /\ UNCHANGED nonRetryVars
    /\ rc.pc = "sleep"
    /\ rc' = [rc EXCEPT !.pc = "call"]
    /\ UNCHANGED <<retry_config, retry_stats>>

NextRetry ==
    \/ \E outcome \in OperationOutcomes, draw \in {"low", "middle", "high"} :
          RetryCall(outcome, draw)
    \/ RetrySleep

\* ------------------------------------------------------------------------
\* Rate limiter (reliability/rate_limiter.rs): check, until_ready,
\* get_or_create_plugin_limiter, remove_plugin, clear_all
\* ------------------------------------------------------------------------
RateCallers == {1, 2}
RatePlugins == {"a", "b"}

\* NonZeroU32::new(x) with the fall-back NonZeroU32::MIN
NonZeroOrMin(x) == IF x = 0 THEN 1 ELSE x

\* no limiter: the plugin has no entry in plugin_limiters, the caller holds
\* no Arc<PluginLimiter>
NoLimiter == 0

IdleRateCall == [pc |-> "idle", op |-> "none", plugin |-> "none",
                 limiter |-> NoLimiter, result |-> "None"]

InitRateStats == [total_requests |-> 0, throttled_requests |-> 0,
                  waited_requests |-> 0, immediate_requests |-> 0]

\* RateLimiter::new: the global bucket starts full, no plugin has a limiter
InitRateWith(cfg) ==
    /\ rate_config = cfg
    /\ global = NonZeroOrMin(cfg.global_burst)
    /\ limiters = << >>
    /\ plugin_limiters = [p \in RatePlugins |-> NoLimiter]
    /\ rate_stats = InitRateStats
    /\ rq = [c \in RateCallers |-> IdleRateCall]
    /\ rate_calls = 0

InitRate ==
    \E cfg \in [global_burst : 0..MaxGlobalBurst, plugin_burst : 0..MaxPluginBurst] :
        InitRateWith(cfg)

\* a PluginLimiter as get_or_create_plugin_limiter builds it: a full bucket
\* of plugin_burst cells and zeroed statistics; `plugin` records the id it
\* was made for
NewPluginLimiter(p) ==
    [plugin |-> p, tokens |-> NonZeroOrMin(rate_config.plugin_burst),
     total_requests |-> 0, throttled_requests |-> 0]

RateReturn(c, result) ==
    rq' = [rq EXCEPT ![c] = [@ EXCEPT !.pc = "done", !.result = result]]

\* check, until_ready: total_requests.fetch_add(1) on entry
RateCall(c, op, p) ==
    /\ UNCHANGED nonRateVars
    /\ rq[c].pc \in {"idle", "done"}
    /\ rate_calls < MaxRateCalls
    /\ rate_calls' = rate_calls + 1
    /\ rq' = [rq EXCEPT ![c] = [IdleRateCall EXCEPT !.pc = "global", !.op = op,
                                                    !.plugin = p]]
    /\ rate_stats' = [rate_stats EXCEPT !.total_requests = @ + 1]
    /\ UNCHANGED <<rate_config, global, limiters, plugin_limiters>>

\* check: self.global.check(), which takes a cell of the global bucket when
\* there is one, and the return of GlobalRateLimited when there is none
CheckGlobal(c) ==
    /\ UNCHANGED nonRateVars
    /\ rq[c].pc = "global" /\ rq[c].op = "check"
    /\ IF global = 0
       THEN /\ rate_stats' = [rate_stats EXCEPT !.throttled_requests = @ + 1]
            /\ RateReturn(c, "GlobalRateLimited")
            /\ UNCHANGED global
       ELSE /\ global' = global - 1
            /\ rq' = [rq EXCEPT ![c].pc = "read"]
            /\ UNCHANGED rate_stats
    /\ UNCHANGED <<rate_config, limiters, plugin_limiters, rate_calls>>

\* until_ready: self.global.until_ready().await completes once the global
\* bucket has a cell
WaitGlobal(c) ==
    /\ UNCHANGED nonRateVars
    /\ rq[c].pc = "global" /\ rq[c].op = "until_ready"
    /\ global > 0
    /\ global' = global - 1
    /\ rq' = [rq EXCEPT ![c].pc = "read"]
    /\ UNCHANGED <<rate_config, limiters, plugin_limiters, rate_stats, rate_calls>>

\* get_or_create_plugin_limiter: the look-up under the read lock
LimiterRead(c) ==
    /\ UNCHANGED nonRateVars
    /\ rq[c].pc = "read"
    /\ rq' = [rq EXCEPT ![c] =
                IF plugin_limiters[rq[c].plugin] # NoLimiter
                THEN [@ EXCEPT !.pc = "plugin",
                               !.limiter = plugin_limiters[rq[c].plugin]]
                ELSE [@ EXCEPT !.pc = "write"]]
    /\ UNCHANGED <<rate_config, global, limiters, plugin_limiters, rate_stats, rate_calls>>

\* LimiterWrite handing out the limiter of another plugin when there is one
LimiterWrite_Shared(c) ==
    /\ UNCHANGED nonRateVars
    /\ rq[c].pc = "write"
    /\ LET p == rq[c].plugin
           others == {q \in RatePlugins : plugin_limiters[q] # NoLimiter}
       IN IF plugin_limiters[p] # NoLimiter
          THEN /\ rq' = [rq EXCEPT ![c] = [@ EXCEPT !.pc = "plugin",
                                                    !.limiter = plugin_limiters[p]]]
               /\ UNCHANGED <<limiters, plugin_limiters>>
          ELSE IF others # {}
          THEN /\ \E q \in others :
                    /\ plugin_limiters' = [plugin_limiters EXCEPT ![p] = plugin_limiters[q]]
                    /\ rq' = [rq EXCEPT ![c] = [@ EXCEPT !.pc = "plugin",
                                                         !.limiter = plugin_limiters[q]]]
               /\ UNCHANGED limiters
          ELSE /\ limiters' = Append(limiters, NewPluginLimiter(p))
               /\ plugin_limiters' = [plugin_limiters EXCEPT ![p] = Len(limiters) + 1]
               /\ rq' = [rq EXCEPT ![c] = [@ EXCEPT !.pc = "plugin",
                                                    !.limiter = Len(limiters) + 1]]
    /\ UNCHANGED <<rate_config, global, rate_stats, rate_calls>>

\* get_or_create_plugin_limiter: under the write lock, the second look-up
\* and the insertion of a new limiter
LimiterWrite(c) ==
    /\ UNCHANGED nonRateVars
    /\ rq[c].pc = "write"
    /\ LET p == rq[c].plugin
       IN IF plugin_limiters[p] # NoLimiter
          THEN /\ rq' = [rq EXCEPT ![c] = [@ EXCEPT !.pc = "plugin",
                                                    !.limiter = plugin_limiters[p]]]
               /\ UNCHANGED <<limiters, plugin_limiters>>
          ELSE /\ limiters' = Append(limiters, NewPluginLimiter(p))
               /\ plugin_limiters' = [plugin_limiters EXCEPT ![p] = Len(limiters) + 1]
               /\ rq' = [rq EXCEPT ![c] = [@ EXCEPT !.pc = "plugin",
                                                    !.limiter = Len(limiters) + 1]]
    /\ UNCHANGED <<rate_config, global, rate_stats, rate_calls>>

\* check: plugin_limiter.limiter.check() on the limiter the call holds, the
\* counters, and the return
CheckPlugin(c) ==
    /\ UNCHANGED nonRateVars
    /\ rq[c].pc = "plugin" /\ rq[c].op = "check"
    /\ LET l == rq[c].limiter
       IN IF limiters[l].tokens = 0
          THEN /\ rate_stats' = [rate_stats EXCEPT !.throttled_requests = @ + 1]
               /\ limiters' = [limiters EXCEPT ![l].throttled_requests = @ + 1]
               /\ RateReturn(c, "RateLimited")
          ELSE /\ limiters' = [limiters EXCEPT ![l].tokens = @ - 1,
                                               ![l].total_requests = @ + 1]
               /\ rate_stats' = [rate_stats EXCEPT !.immediate_requests = @ + 1]
               /\ RateReturn(c, "Ok")
    /\ UNCHANGED <<rate_config, global, plugin_limiters, rate_calls>>

\* until_ready: plugin_limiter.limiter.until_ready().await completes once
\* the limiter has a cell; the counters, and the return
WaitPlugin(c) ==
    /\ UNCHANGED nonRateVars
    /\ rq[c].pc = "plugin" /\ rq[c].op = "until_ready"
    /\ LET l == rq[c].limiter
       IN /\ limiters[l].tokens > 0
          /\ limiters' = [limiters EXCEPT ![l].tokens = @ - 1,
                                          ![l].total_requests = @ + 1]
    /\ rate_stats' = [rate_stats EXCEPT !.waited_requests = @ + 1]
    /\ RateReturn(c, "Ready")
    /\ UNCHANGED <<rate_config, global, plugin_limiters, rate_calls>>

\* remove_plugin
RemovePlugin(p) ==
    /\ UNCHANGED nonRateVars
    /\ rate_calls < MaxRateCalls
    /\ rate_calls' = rate_calls + 1
    /\ plugin_limiters' = [plugin_limiters EXCEPT ![p] = NoLimiter]
    /\ UNCHANGED <<rate_config, global, limiters, rate_stats, rq>>

\* clear_all
ClearAllLimiters ==
    /\ UNCHANGED nonRateVars
    /\ rate_calls < MaxRateCalls
    /\ rate_calls' = rate_calls + 1
    /\ plugin_limiters' = [p \in RatePlugins |-> NoLimiter]
    /\ UNCHANGED <<rate_config, global, limiters, rate_stats, rq>>

\* the clock: one replenishment interval of the global quota has passed
ReplenishGlobal ==
    /\ UNCHANGED nonRateVars
    /\ global < NonZeroOrMin(rate_config.global_burst)
    /\ global' = global + 1
    /\ UNCHANGED <<rate_config, limiters, plugin_limiters, rate_stats, rq, rate_calls>>

\* the clock: one replenishment interval of a plugin quota has passed
ReplenishPlugin(l) ==
    /\ UNCHANGED nonRateVars
    /\ limiters[l].tokens < NonZeroOrMin(rate_config.plugin_burst)
    /\ limiters' = [limiters EXCEPT ![l].tokens = @ + 1]
    /\ UNCHANGED <<rate_config, global, plugin_limiters, rate_stats, rq, rate_calls>>

NextRate ==
    \/ \E c \in RateCallers, p \in RatePlugins : RateCall(c, "check", p)
    \/ \E c \in RateCallers, p \in RatePlugins : RateCall(c, "until_ready", p)
    \/ \E c \in RateCallers : CheckGlobal(c)
    \/ \E c \in RateCallers : WaitGlobal(c)
    \/ \E c \in RateCallers : LimiterRead(c)
    \/ \E c \in RateCallers : LimiterWrite(c)
    \/ \E c \in RateCallers : CheckPlugin(c)
    \/ \E c \in RateCallers : WaitPlugin(c)
    \/ \E p \in RatePlugins : RemovePlugin(p)
    \/ ClearAllLimiters
    \/ ReplenishGlobal
    \/ \E l \in 1..Len(limiters) : ReplenishPlugin(l)

\* ------------------------------------------------------------------------
\* Event bus locks (plugin/event_bus.rs): subscribe, unsubscribe_all,
\* unsubscribe_only and dispatch_event, one step per lock taken
\* ------------------------------------------------------------------------
BusCallers == {1, 2}

\* no task holds the lock
NoHolder == 0

\* the dispatcher task t as the holder of a lock
DispatcherHolder(t) == Cardinality(BusCallers) + t

IdleBusCall == [pc |-> "idle", op |-> "none", plugin |-> NoPlugin, events |-> {}]

\* EventBus::new: the RwLocks around subscriptions, handlers and stats are free
InitBusLocks ==
    /\ bus_locks = [subscriptions |-> NoHolder, handlers |-> NoHolder, stats |-> NoHolder]
    /\ bc = [c \in BusCallers |-> IdleBusCall]
    /\ bus_calls = 0

\* what a step of a caller leaves alone on the bus besides the subscriptions,
\* the handlers and the statistics
BusCallRest == <<queue_size, event_queue, pending_send, dispatcher_handle, dtask,
                 last_started, emitted>>

\* a caller enters subscribe, unsubscribe_all or unsubscribe_only and awaits
\* self.subscriptions.write()
BusCall(c, op, plugin_id, events) ==
    /\ UNCHANGED nonBusLockVars
    /\ bc[c].pc \in {"idle", "done"}
    /\ bus_calls < MaxBusCalls
    /\ bus_calls' = bus_calls + 1
    /\ bc' = [bc EXCEPT ![c] = [pc |-> "subscriptions", op |-> op, plugin |-> plugin_id,
                                events |-> events]]
    /\ UNCHANGED <<bus_locks, subscriptions, handlers, bus_stats, BusCallRest>>

\* subscribe, unsubscribe_all, unsubscribe_only: self.subscriptions.write()
\* is granted and the subscriptions are changed; the guard `subs` lives on
\* while the next lock is awaited
SubscriptionsWrite(c) ==
    /\ UNCHANGED nonBusLockVars
    /\ bc[c].pc = "subscriptions"
    /\ bus_locks.subscriptions = NoHolder
    /\ bus_locks' = [bus_locks EXCEPT !.subscriptions = c]
    /\ subscriptions' = IF bc[c].op = "subscribe"
                        THEN SubscribeInto(subscriptions, bc[c].plugin, bc[c].events)
                        ELSE UnsubscribeFrom(subscriptions, bc[c].plugin)
    /\ bc' = [bc EXCEPT ![c].pc = IF bc[c].op = "unsubscribe_all"
                                  THEN "handlers" ELSE "stats"]
    /\ UNCHANGED <<handlers, bus_stats, BusCallRest, bus_calls>>

\* unsubscribe_all: self.handlers.write().await.remove(plugin_id)
HandlersWrite(c) ==
    /\ UNCHANGED nonBusLockVars
    /\ bc[c].pc = "handlers"
    /\ bus_locks.handlers = NoHolder
    /\ handlers' = handlers \ {bc[c].plugin}
    /\ bc' = [bc EXCEPT ![c].pc = "stats"]
    /\ UNCHANGED <<bus_locks, subscriptions, bus_stats, BusCallRest, bus_calls>>

\* subscribe, unsubscribe_all, unsubscribe_only: self.stats.write() is
\* granted, total_subscriptions is stored, and the function returns, which
\* drops the guard `subs`
StatsWrite(c) ==
    /\ UNCHANGED nonBusLockVars
    /\ bc[c].pc = "stats"
    /\ bus_locks.stats = NoHolder
    /\ bus_stats' = [bus_stats EXCEPT !.total_subscriptions =
                        TotalSubscriptions(subscriptions)]
    /\ bus_locks' = [bus_locks EXCEPT !.subscriptions =
                        IF @ = c THEN NoHolder ELSE @]
    /\ bc' = [bc EXCEPT ![c].pc = "done"]
    /\ UNCHANGED <<subscriptions, handlers, BusCallRest, bus_calls>>

\* emit: queue_event, whose self.stats.write() is granted when no task holds
\* the lock
LockedEmit(plugin_id, action) ==
    /\ bus_locks.stats = NoHolder
    /\ emit(plugin_id, action)

\* dispatch_event: get_subscribers, whose subscriptions.read() is granted
\* when no writer holds the lock
LockedGetSubscribers(t) ==
    /\ bus_locks.subscriptions = NoHolder
    /\ DispatchSubscribers(t)

\* dispatch_event: the block under handlers.read()
LockedDispatchHandlers(t) ==
    /\ bus_locks.handlers = NoHolder
    /\ DispatchHandlers(t)

\* dispatch_event: self.stats.write() is granted after the last handler
DispatchStatsLock(t) ==
    /\ UNCHANGED nonBusLockVars
    /\ dtask[t].pc = "invoke"
    /\ dtask[t].d.current = NoPlugin
    /\ dtask[t].d.handlers_to_call = {}
    /\ bus_locks.stats = NoHolder
    /\ bus_locks' = [bus_locks EXCEPT !.stats = DispatcherHolder(t)]
    /\ UNCHANGED <<busVars, bc, bus_calls>>

\* dispatch_event: the statistics are stored, the guard is dropped at the
\* end of the block, and the loop is back at rx.recv()
DispatchStatsUnlock(t) ==
    /\ UNCHANGED nonBusLockVars
    /\ bus_locks.stats = DispatcherHolder(t)
    /\ bus_locks' = [bus_locks EXCEPT !.stats = NoHolder]
    /\ bus_stats' = [bus_stats EXCEPT !.events_dispatched = @ + 1,
                                      !.dispatch_failures = @ + dtask[t].d.failures]
    /\ dtask' = [dtask EXCEPT ![t].pc = "recv", ![t].d = IdleDispatch]
    /\ UNCHANGED <<queue_size, subscriptions, handlers, event_queue, pending_send,
                   dispatcher_handle, last_started, emitted, bc, bus_calls>>

NextBusLocks ==
    \/ \E c \in BusCallers, p \in Plugins, events \in EventLists :
          BusCall(c, "subscribe", p, events)
    \/ \E c \in BusCallers, p \in Plugins : BusCall(c, "unsubscribe_all", p, {})
    \/ \E c \in BusCallers, p \in Plugins : BusCall(c, "unsubscribe_only", p, {})
    \/ \E c \in BusCallers : SubscriptionsWrite(c)
    \/ \E c \in BusCallers : HandlersWrite(c)
    \/ \E c \in BusCallers : StatsWrite(c)
    \/ \E p \in Plugins : register_handler(p)
    \/ start_dispatcher
    \/ \E p \in Plugins : LockedEmit(p, GoodAction)
    \/ \E t \in DispatcherIds : DispatcherLock(t)
    \/ \E t \in DispatcherIds : DispatcherRecv(t)
    \/ \E t \in DispatcherIds : LockedGetSubscribers(t)
    \/ \E t \in DispatcherIds : LockedDispatchHandlers(t)
    \/ \E t \in DispatcherIds : HandlerStart(t)
    \/ \E t \in DispatcherIds, result \in {"ok", "err"} : HandlerEnd(t, result)
    \/ \E t \in DispatcherIds : DispatchStatsLock(t)
    \/ \E t \in DispatcherIds : DispatchStatsUnlock(t)

\* ------------------------------------------------------------------------
\* Specifications
\* ------------------------------------------------------------------------
\* the subsystems a specification does not exercise stay as constructed
QuietSched ==
    /\ config = [max_concurrent |-> 1, max_queue_size |-> 1, enable_priority |-> FALSE]
    /\ InitSched
QuietTimer == InitTimerWith(0)
QuietAlert == InitAlertWith(DefaultThresholds.cooldown_seconds)
QuietBus == InitBusWith(DefaultQueueSize)
QuietLife == InitLifeWith([p \in Plugins |-> ManifestB])
QuietCall == InitCall
QuietHealth == InitHealth
QuietExec == InitExec
QuietFetch == InitFetchWith(TRUE, TRUE, 0)
QuietWatchdog == InitWatchdog
QuietCache == InitCache
QuietExtract == target_dir = Absent /\ backups = [b \in 1..BACKUP_VERSIONS |-> Absent] /\ temp_dir = Absent /\ ex = IdleExtract /\ extracts = 0
QuietRetry == retry_config = [max_retries |-> 3, initial_delay |-> 100, max_delay |-> 5000, multiplier |-> 2, jitter_factor_percent |-> 20, enable_jitter |-> TRUE] /\ rc = [pc |-> "call", attempt |-> 0, outcomes |-> << >>, delay |-> 0, result |-> "None"] /\ retry_stats = InitRetryStats
QuietRate == InitRateWith([global_burst |-> 1, plugin_burst |-> 1])
QuietBusLocks == InitBusLocks
QuietUtil == QuietFetch /\ QuietWatchdog /\ QuietCache /\ QuietExtract /\ QuietRetry /\ QuietRate /\ QuietBusLocks
QuietCore == QuietSched /\ QuietTimer /\ QuietAlert /\ QuietBus /\ QuietLife /\ QuietCall /\ QuietHealth /\ QuietExec

InitFM == QuietCore /\ InitFetchWith(TRUE, TRUE, 0) /\ QuietWatchdog /\ QuietCache /\ QuietExtract /\ QuietRetry /\ QuietRate /\ QuietBusLocks

SpecFetchManager == InitFM /\ [][NextFetchManager]_vars

InitF == QuietCore /\ InitFetch /\ QuietWatchdog /\ QuietCache /\ QuietExtract /\ QuietRetry /\ QuietRate /\ QuietBusLocks

SpecFetch == InitF /\ [][NextFetch]_vars

InitW == QuietCore /\ QuietFetch /\ InitWatchdog /\ QuietCache /\ QuietExtract /\ QuietRetry /\ QuietRate /\ QuietBusLocks

SpecWatchdog == InitW /\ [][NextWatchdog]_vars /\ FairWatchdog

InitCS == QuietCore /\ QuietFetch /\ QuietWatchdog /\ InitCache /\ QuietExtract /\ QuietRetry /\ QuietRate /\ QuietBusLocks

SpecCacheSeq == InitCS /\ [][NextCacheSeq]_vars

SpecCache == InitCS /\ [][NextCache]_vars

InitX == QuietCore /\ QuietFetch /\ QuietWatchdog /\ QuietCache /\ InitExtract /\ QuietRetry /\ QuietRate /\ QuietBusLocks

SpecExtract == InitX /\ [][NextExtract]_vars

InitRT == QuietCore /\ QuietFetch /\ QuietWatchdog /\ QuietCache /\ QuietExtract /\ InitRetry /\ QuietRate /\ QuietBusLocks

SpecRetry == InitRT /\ [][NextRetry]_vars

InitRL == QuietCore /\ QuietFetch /\ QuietWatchdog /\ QuietCache /\ QuietExtract /\ QuietRetry /\ InitRate /\ QuietBusLocks

SpecRate == InitRL /\ [][NextRate]_vars

InitBL == QuietCore /\ QuietFetch /\ QuietWatchdog /\ QuietCache /\ QuietExtract /\ QuietRetry /\ QuietRate /\ InitBusLocks

SpecBusLocks == InitBL /\ [][NextBusLocks]_vars

Init == InitSched /\ QuietTimer /\ QuietAlert /\ QuietBus /\ QuietLife /\ QuietCall /\ QuietHealth /\ QuietExec /\ QuietUtil

SpecSched == Init /\ [][NextSched]_vars

\* The scheduler while it is neither shut down nor asked to cancel: burst
\* submission followed by the worker draining the queue.
NextSchedRun ==
    \/ \E p \in TaskPriority : SubmitBegin(p)
    \/ SubmitEnqueue
    \/ SubmitFinish
    \/ WorkerLoop
    \/ WorkerCheck
    \/ WorkerWait
    \/ WorkerAcquire
    \/ WorkerPop
    \/ \E t \in TaskIds : ExecuteTask(t)
    \/ \E t \in TaskIds : TaskRelease(t)

\* The tokio runtime keeps polling every spawned task and every caller that is
\* inside submit; each task body terminates (or its timeout fires).  Nothing
\* obliges a client to submit.
FairSched ==
    /\ WF_vars(SubmitEnqueue \/ SubmitFinish)
    /\ WF_vars(WorkerLoop \/ WorkerCheck \/ WorkerWait \/ WorkerAcquire \/ WorkerPop)
    /\ \A t \in TaskIds : WF_vars(ExecuteTask(t) \/ TaskRelease(t))

SpecSchedLive == Init /\ [][NextSchedRun]_vars /\ FairSched

\* The scheduler at work with a shutdown call that may come at any moment.
NextSchedShutdown ==
    \/ \E p \in TaskPriority : SubmitBegin(p)
    \/ SubmitEnqueue
    \/ SubmitFinish
    \/ WorkerLoop
    \/ WorkerCheck
    \/ WorkerWait
    \/ WorkerAcquire
    \/ WorkerPop
    \/ \E t \in TaskIds : ExecuteTask(t)
    \/ \E t \in TaskIds : TaskRelease(t)
    \/ ShutdownCancel
    \/ ShutdownDrain

\* A shutdown call that has cancelled the token goes on to drain the queue.
FairShutdown == FairSched /\ WF_vars(ShutdownDrain)

SpecSchedShutdown == Init /\ [][NextSchedShutdown]_vars /\ FairShutdown

\* A scheduler whose queue holds every submission of the run, given tasks of
\* all four priorities.
InitPriority ==
    /\ config \in [max_concurrent : 1..MaxConcurrentBound,
                   max_queue_size : {MaxSubmits},
                   enable_priority : BOOLEAN]
    /\ queue = << >>
    /\ semaphore = config.max_concurrent
    /\ next_task_id = 1
    /\ stats = InitStats
    /\ shutdown_token = FALSE
    /\ queue_notify = FALSE
    /\ task = [t \in TaskIds |-> InitTask]
    /\ workerPc = "loop"
    /\ subPc = "idle"
    /\ subTask = NoTask
    /\ submitLog = << >>
    /\ shutPc = "idle"

NextPriority ==
    \/ \E p \in {Low, Normal, High, Critical} : SubmitBegin(p)
    \/ SubmitEnqueue
    \/ SubmitFinish
    \/ WorkerLoop
    \/ WorkerCheck
    \/ WorkerWait
    \/ WorkerAcquire
    \/ WorkerPop
    \/ \E t \in TaskIds : ExecuteTask(t)
    \/ \E t \in TaskIds : TaskRelease(t)

InitP == InitPriority /\ QuietTimer /\ QuietAlert /\ QuietBus /\ QuietLife /\ QuietCall /\ QuietHealth /\ QuietExec /\ QuietUtil

SpecPriority == InitP /\ [][NextPriority]_vars

InitT == QuietSched /\ InitTimer /\ QuietAlert /\ QuietBus /\ QuietLife /\ QuietCall /\ QuietHealth /\ QuietExec /\ QuietUtil

SpecTimer == InitT /\ [][NextTimer]_vars

InitTL == QuietSched /\ QuietTimer /\ QuietAlert /\ QuietBus /\ QuietLife /\ QuietCall /\ QuietHealth /\ QuietExec /\ QuietUtil

SpecTimerLive == InitTL /\ [][NextTimerRun]_vars /\ FairTimer

InitA == QuietSched /\ QuietTimer /\ InitAlert /\ QuietBus /\ QuietLife /\ QuietCall /\ QuietHealth /\ QuietExec /\ QuietUtil

SpecAlert == InitA /\ [][NextAlert]_vars

SpecSeverity == InitA /\ [][NextSeverity]_vars

InitB == QuietSched /\ QuietTimer /\ QuietAlert /\ InitBus /\ QuietLife /\ QuietCall /\ QuietHealth /\ QuietExec /\ QuietUtil

SpecBus == InitB /\ [][NextBus]_vars

InitL == QuietSched /\ QuietTimer /\ QuietAlert /\ QuietBus /\ InitLife /\ QuietCall /\ QuietHealth /\ QuietExec /\ QuietUtil

SpecLife == InitL /\ [][NextLife]_vars

\* One reload_plugin call on a manager whose bus is dispatching: plugins
\* register handlers and emit events while manifests change and are reloaded.
NextReload ==
    \/ \E id \in Plugins, file \in {ManifestA, ManifestB} : WriteManifest(id, file)
    \/ discover_and_load
    \/ \E id \in Plugins : PluginRegisterHandler(id)
    \/ \E id \in Plugins : ReloadPath(1, id)
    \/ ReloadRead(1)
    \/ ReloadUnsubscribe(1)
    \/ ReloadUnregisterPermissions(1)
    \/ ReloadUnregisterMethods(1)
    \/ ReloadUnregisterSchema(1)
    \/ ReloadSubscribe(1)
    \/ ReloadRegisterSchema(1)
    \/ ReloadRegisterPermissions(1)
    \/ ReloadRegisterMethods(1)
    \/ ReloadCommit(1)
    \/ start_dispatcher
    \/ \E p \in Plugins, action \in Actions : emit_sync(p, action)
    \/ \E t \in DispatcherIds :
          \/ DispatcherLock(t)
          \/ DispatcherRecv(t)
          \/ DispatchSubscribers(t)
          \/ DispatchHandlers(t)
          \/ HandlerStart(t)
          \/ \E result \in {"ok", "err", "timeout"} : HandlerEnd(t, result)
          \/ DispatchStats(t)

\* The dispatcher task is polled by the runtime, and every handler it awaits
\* returns or runs into the handler timeout.
FairReload ==
    \A t \in DispatcherIds :
        WF_vars(DispatcherLock(t) \/ DispatcherRecv(t) \/ DispatchSubscribers(t)
                    \/ DispatchHandlers(t) \/ HandlerStart(t)
                    \/ (\E result \in {"ok", "err", "timeout"} : HandlerEnd(t, result))
                    \/ DispatchStats(t))

SpecReload == InitL /\ [][NextReload]_vars /\ FairReload

\* a plugin directory with subscriptions, permissions, a method and a schema,
\* and one whose configSchema is not a schema
InitUnload ==
    InitLifeWith([p \in Plugins |-> IF p = "p1" THEN ManifestA ELSE ManifestBadSchema])

InitU == QuietSched /\ QuietTimer /\ QuietAlert /\ QuietBus /\ InitUnload /\ QuietCall /\ QuietHealth /\ QuietExec /\ QuietUtil

SpecUnload == InitU /\ [][NextUnload]_vars

\* the manager after one discover_and_load of the directories `files`: every
\* manifest found is in the table, disabled, and registered
LoadedLifeWith(files) ==
    /\ disk = files
    /\ plugins = [id \in Discovered |->
                    [manifest |-> disk[id], state |-> "Unloaded", enabled |-> FALSE,
                     resources |-> {}, cached_data |-> "none", health |-> NewHealth]]
    /\ permissions = LoadPermissions(<< >>, Discovered)
    /\ methods = UNION {{<<id, m>> : m \in disk[id].exposed_methods} : id \in Discovered}
    /\ schemas = LoadSchemas(<< >>, Discovered)
    /\ rl = [c \in ReloadCallers |-> IdleReload]
    /\ life_ops = 1
    /\ un = IdleUninstall
    /\ sd = "idle"
    /\ call_disp = [handle |-> FALSE, rx |-> TRUE, task |-> "unspawned"]
    /\ life_ret = [op |-> "none", id |-> NoPlugin, result |-> "none", n |-> 0]

\* the event bus after that discover_and_load
LoadedBus ==
    /\ queue_size = DefaultQueueSize
    /\ subscriptions = LoadSubs(<< >>, Discovered)
    /\ handlers = {}
    /\ event_queue = << >>
    /\ pending_send = << >>
    /\ bus_stats = [events_published |-> 0, events_dispatched |-> 0,
                    dispatch_failures |-> 0,
                    total_subscriptions |-> TotalSubscriptions(subscriptions)]
    /\ dispatcher_handle = 0
    /\ dtask = [t \in DispatcherIds |-> NewDispatcher]
    /\ last_started = 0
    /\ emitted = 0

LoadedUnload ==
    LoadedLifeWith([p \in Plugins |-> IF p = "p1" THEN ManifestA ELSE ManifestBadSchema])

\* reload_plugin and uninstall_plugin called on loaded plugins
NextReloadUninstall ==
    \/ \E id \in Plugins : UninstallUnsubscribe(id)
    \/ UninstallUnregisterPermissions
    \/ UninstallUnregisterMethods
    \/ UninstallUnregisterSchema
    \/ UninstallRemove
    \/ \E result \in {"Ok", "Io"} : UninstallDelete(result)
    \/ \E id \in Plugins : ReloadPath(1, id)
    \/ ReloadRead(1)
    \/ ReloadUnsubscribe(1)
    \/ ReloadUnregisterPermissions(1)
    \/ ReloadUnregisterMethods(1)
    \/ ReloadUnregisterSchema(1)
    \/ ReloadSubscribe(1)
    \/ ReloadRegisterSchema(1)
    \/ ReloadRegisterPermissions(1)
    \/ ReloadRegisterMethods(1)
    \/ ReloadCommit(1)
    \/ ReloadDone(1)

InitRU == QuietSched /\ QuietTimer /\ QuietAlert /\ LoadedUnload /\ LoadedBus /\ QuietCall /\ QuietHealth /\ QuietExec /\ QuietUtil

SpecReloadUninstall == InitRU /\ [][NextReloadUninstall]_vars

InitE == QuietSched /\ QuietTimer /\ QuietAlert /\ QuietBus /\ InitUnload /\ QuietCall /\ QuietHealth /\ InitExec /\ QuietUtil

SpecExec == InitE /\ [][NextExec]_vars

InitC == QuietSched /\ QuietTimer /\ QuietAlert /\ QuietBus /\ QuietLife /\ InitCall /\ QuietHealth /\ QuietExec /\ QuietUtil

SpecCall == InitC /\ [][NextCall]_vars

InitH == QuietSched /\ QuietTimer /\ QuietAlert /\ QuietBus /\ QuietLife /\ QuietCall /\ InitHealth /\ QuietExec /\ QuietUtil

SpecHealth == InitH /\ [][NextHealth]_vars

\* ------------------------------------------------------------------------
\* Scheduler properties
\* ------------------------------------------------------------------------
Executing == {t \in TaskIds : task[t].status \in {"running", "sent"}}
NoneFinished == \A t \in TaskIds : task[t].status \in {"new", "queued", "running"}

\* C1: with max_concurrent = M and max_queue_size = Q, while no submitted task
\* has finished, each of the first M+Q submit calls returns Ok and the
\* (M+Q+1)-th returns QueueFull, whatever the worker has done in between.
C1_FirstMQSubmitsSucceed ==
    (NoneFinished /\ ~shutdown_token) =>
        \A i \in 1..Len(submitLog) :
            /\ (i <= config.max_concurrent + config.max_queue_size
                    => submitLog[i] = "Ok")
            /\ (i = config.max_concurrent + config.max_queue_size + 1
                    => submitLog[i] = "QueueFull")

C8_BoundedConcurrency ==
    Cardinality(Executing) <= config.max_concurrent

\* C8 witness: max_concurrent tasks are executing while another one waits
C8_Witness ==
    /\ Cardinality(Executing) = config.max_concurrent
    /\ Len(queue) > 0
    /\ workerPc = "acquire"

\* C25: a task whose future panics resolves its handle with TaskPanic; its
\* release gives the permit back (every permit is free again when nothing is
\* executing), and a task that is queued once a future has panicked is still
\* executed.
C25_PanicIsTaskPanic ==
    /\ [](\A t \in TaskIds : task[t].future = "panics" => task[t].result = "TaskPanic")
    /\ []((Executing = {} /\ workerPc # "pop") => semaphore = config.max_concurrent)
    /\ [][\A t \in TaskIds :
            (task[t].future = "panics" /\ task[t].status = "sent"
                /\ task'[t].status = "done") => semaphore' = semaphore + 1]_vars
    /\ \A u \in TaskIds :
          (task[u].status = "queued" /\ \E t \in TaskIds : task[t].future = "panics")
              ~> (task[u].status \in {"sent", "done"})

\* the first task panicked and was released while the second one was queued,
\* and the second one then ran to its result
C25_Witness ==
    /\ task[1].future = "panics" /\ task[1].status = "done"
    /\ task[1].result = "TaskPanic"
    /\ task[2].status = "done" /\ task[2].result = "Ok"
    /\ stats.total_panicked = 1
    /\ semaphore = config.max_concurrent

\* task t is to be started before task u: by priority and then by submission
\* when priorities are enabled, by submission alone otherwise (the single
\* submitter takes the task ids in the order of its calls)
StartsBefore(t, u) ==
    IF config.enable_priority
    THEN \/ task[t].priority > task[u].priority
         \/ task[t].priority = task[u].priority /\ t < u
    ELSE t < u

\* C26: whenever the worker starts a queued task, every task still waiting in
\* the queue has a lower priority, or the same priority and a later
\* submission, when priorities are enabled; with priorities disabled every
\* task still waiting was submitted later
C26_StartedInPriorityThenSubmissionOrder ==
    [][\A t \in TaskIds :
          (task[t].status = "queued" /\ task'[t].status = "running")
              => \A u \in TaskIds \ {t} :
                    task[u].status = "queued" => StartsBefore(t, u)]_vars

\* with priorities enabled the High task submitted second was started while
\* the Normal task submitted first is still queued
C26_Witness ==
    /\ config.enable_priority
    /\ task[1].priority = Normal /\ task[1].status = "queued"
    /\ task[2].priority = High /\ task[2].status \in {"running", "sent", "done"}

\* C37: the handle of every admitted task is eventually resolved, by the
\* result of execute_task or by the Shutdown error of the drain, also when
\* shutdown runs while the submit is under way
C37_HandleEventuallyResolved ==
    \A t \in TaskIds :
        (task[t].status = "queued") ~> (task[t].status \in {"sent", "done", "drained"})

\* no submit call is in progress and every task admitted so far ran to its
\* end and returned a value
AllCompleted ==
    /\ subPc = "idle"
    /\ \A t \in TaskIds :
          task[t].status = "new" \/ (task[t].status = "done" /\ task[t].result = "Ok")

\* C35: the queue_length counter never wraps below zero, and once every
\* admitted task has completed total_completed equals total_submitted and
\* queue_length is 0
C35_StatsBalanced ==
    /\ stats.queue_length # UsizeWrapped
    /\ AllCompleted => /\ stats.total_completed = stats.total_submitted
                       /\ stats.queue_length = 0

\* ------------------------------------------------------------------------
\* Timer properties
\* ------------------------------------------------------------------------
\* timers that own a permit: tasks and entries of this run, and the intervals
\* registered before it
Holders == {id \in TimerIds : tm[id].permit # "released"} \cup (timers \ TimerIds)

\* no timer of the run is left in a map or in a running task
AllDrained ==
    /\ pending_tokens = {}
    /\ timers = {}
    /\ \A id \in TimerIds : tm[id].pc = "done"

\* C3: once register(id) and cancel(id) have both returned, exactly one of
\* "register succeeded" and "cancel found the token still pending" is true:
\* either the task goes on to run, or cancel took the token and register
\* returned false; they never both miss the timer.
C3_RegisterXorCancelPending ==
    \A id \in TimerIds :
        (tm[id].registered # "none" /\ tm[id].cancelRan /\ ~tm[id].swept) =>
            (tm[id].registered = "true") # tm[id].sawPending

\* C3 witness: cancel won the race, register came second and returned false
C3_Witness ==
    \E id \in TimerIds :
        /\ tm[id].cancelRan /\ tm[id].sawPending
        /\ tm[id].registered = "false"
        /\ ~tm[id].swept

\* C4: a timer whose clearTimeout was called, or whose token is cancelled, or
\* that is a one-shot timeout, eventually gives its permit back; and when all
\* timers have drained all MAX_TIMERS permits are available again.
C4_PermitEventuallyReleased ==
    /\ \A id \in RunTimerIds :
          (id \in TimerIds /\ (id \in cancelReq \/ tm[id].token \/ ~tm[id].is_interval))
              ~> (id \in TimerIds /\ tm[id].permit = "released")
    /\ [](AllDrained => timer_permits = MAX_TIMERS)

\* C4 witness: everything drained after one timer fired and another one was
\* cancelled, all permits back
C4_Witness ==
    /\ AllDrained
    /\ timer_permits = MAX_TIMERS
    /\ \E id \in TimerIds : tm[id].fired /\ tm[id].permit = "released"
    /\ \E id \in TimerIds : tm[id].cancelRan /\ tm[id].token /\ tm[id].permit = "released"

PassedAlerts ==
    {[key |-> <<alert_history[i].plugin_id, alert_history[i].alert_type>>,
      stamp |-> alert_history[i].stamp, at |-> i] : i \in 1..Len(alert_history)}
    \cup {[key |-> CooldownKey(c), stamp |-> alertCaller[c].stamp, at |-> 0 - c] :
            c \in {d \in AlertCallers : alertCaller[d].pc = "record"}}

\* C5: two alerts of the same (plugin, alert type) are never both let through by
\* checks made less than the cooldown apart, however the callers interleave.
C5_OneAlertPerCooldown ==
    \A a, b \in PassedAlerts :
        (a.key = b.key /\ a.at # b.at) =>
            \/ a.stamp - b.stamp >= thresholds.cooldown_seconds
            \/ b.stamp - a.stamp >= thresholds.cooldown_seconds

\* C5 witness: two callers are inside trigger_alert for the same key at the same
\* time; one has passed the cooldown test and the other was turned away
C5_Witness ==
    \E c, d \in AlertCallers :
        /\ c # d
        /\ alertCaller[c].pc = "record"
        /\ alertCaller[d].pc = "cooldown"
        /\ CooldownKey(c) = CooldownKey(d)
        /\ InCooldown(CooldownKey(d))

\* C20: every alert raised is Critical when its value is at least twice the
\* threshold (consecutive failures, latency) or at most half the threshold
\* (success rate), the values 2 x threshold and threshold / 2 included, and is
\* a Warning otherwise.
C20_CriticalFromTwiceThreshold ==
    \A i \in 1..Len(alert_history) :
        LET a == alert_history[i]
            critical ==
                CASE a.alert_type = "ConsecutiveFailures" ->
                        a.value >= 2 * thresholds.consecutive_failures
                  [] a.alert_type = "HighLatency" ->
                        a.value >= 2 * thresholds.high_latency_ms
                  [] a.alert_type = "LowSuccessRate" ->
                        2 * a.value <= thresholds.low_success_rate
        IN a.severity = IF critical THEN "Critical" ELSE "Warning"

\* ------------------------------------------------------------------------
\* Event bus properties
\* ------------------------------------------------------------------------
\* the dispatcher tasks that are inside a handler call
Invoking == {t \in DispatcherIds : dtask[t].d.current # NoPlugin}

\* C9: the handler being called for an event is never the handler of the
\* plugin the event came from.
C9_NoSelfDelivery ==
    \A t \in Invoking : dtask[t].d.current # dtask[t].d.event.source_plugin

\* C9 witness: p1 is subscribed to the name of its own event and has a handler,
\* and the event is being delivered to the other subscriber
C9_Witness ==
    \E t \in Invoking :
        /\ dtask[t].d.event.source_plugin = "p1"
        /\ "p1" \in dtask[t].d.subscribers
        /\ "p1" \in handlers
        /\ dtask[t].d.current = "p2"

\* C10: handlers are called for one event at a time and in the order the events
\* entered the channel: at most one handler call is in progress, and a handler
\* call never starts for an event older than the one handled last.
C10_DispatchInOrder ==
    /\ [](Cardinality(Invoking) <= 1)
    /\ [][last_started' >= last_started]_vars

\* C10 witness: the first event of the run has been dispatched to its
\* subscribers and a handler is being called for the second one
C10_Witness ==
    \E t \in Invoking :
        /\ dtask[t].d.event.seq = 2
        /\ last_started = 2
        /\ bus_stats.events_dispatched = 1
        /\ bus_stats.dispatch_failures = 1

\* ------------------------------------------------------------------------
\* Plugin manager properties
\* ------------------------------------------------------------------------
\* the reload_plugin calls that found an invalid configSchema in the manifest
SchemaRejected == {c \in ReloadCallers : rl[c].new_manifest.config_schema = "invalid"}

\* C6: a reload_plugin call whose new manifest carries an invalid configSchema
\* returns the schema error, and none of its steps has changed the plugin's
\* subscriptions, permissions, exposed methods or registered schema.
C6_InvalidSchemaKeepsRegistrations ==
    \A c \in SchemaRejected :
        /\ rl[c].pc = "done"
        /\ rl[c].result = "SchemaInvalid"
        /\ ~rl[c].touched

\* C6 witness: reload_plugin has returned the schema error for a loaded plugin
\* that has subscriptions, permissions, an exposed method and a schema
C6_Witness ==
    \E c \in SchemaRejected :
        /\ rl[c].pc = "done"
        /\ rl[c].id \in DOMAIN plugins
        /\ Registrations(rl[c].id).subscriptions # {}
        /\ Registrations(rl[c].id).permissions # {}
        /\ Registrations(rl[c].id).methods # {}
        /\ Registrations(rl[c].id).schema = "schema_a"

\* ------------------------------------------------------------------------
\* Cross-plugin call properties
\* ------------------------------------------------------------------------
\* C11: a call from caller to target.method is allowed only if the caller
\* holds the permission call:<target>:<method> when the checker reads the
\* permissions and the target has the method registered when the checker reads
\* the method registry; a caller without the permission gets PermissionDenied
\* and a call of a method that is not registered gets MethodNotExposed.
C11_CallNeedsPermissionAndMethod ==
    [][/\ (vc.pc = "idle" /\ vc' # vc) =>
            IF has_permission(vc'.caller, CallPermission(vc'.target, vc'.method))
            THEN vc'.pc = "method" /\ vc'.result = "none"
            ELSE vc'.pc = "idle" /\ vc'.result = "PermissionDenied"
       /\ (vc.pc = "method" /\ vc' # vc) =>
            IF is_registered(vc.target, vc.method)
            THEN IF vc.full THEN vc'.pc = "depth" /\ vc'.result = "none"
                 ELSE vc'.pc = "idle" /\ vc'.result = "Ok"
            ELSE vc'.pc = "idle" /\ vc'.result = "MethodNotExposed"
       /\ (vc'.result = "Ok" /\ vc' # vc) => vc.pc \in {"method", "depth"}]_vars

\* check_call_permission has allowed a call of another plugin's method
C11_Witness ==
    /\ vc.pc = "idle"
    /\ vc.result = "Ok"
    /\ ~vc.full
    /\ vc.caller # vc.target

\* C12: the call stack never holds more than three entries nor one plugin
\* twice, and a push that is rejected leaves the stack as it was.
C12_StackBoundedAcyclic ==
    /\ [](/\ Len(call_stack.stack) <= 3
          /\ \A i, j \in 1..Len(call_stack.stack) :
                call_stack.stack[i] = call_stack.stack[j] => i = j)
    /\ [][push_result' \in {"CallDepthExceeded", "CircularCall"} =>
             call_stack' = call_stack]_vars

\* a full chain has rejected a push
C12_Witness ==
    /\ Len(call_stack.stack) = 3
    /\ push_result \in {"CallDepthExceeded", "CircularCall"}

\* ------------------------------------------------------------------------
\* Unloading properties
\* ------------------------------------------------------------------------
\* the registries hold nothing for the plugin
NoRegistrations(id) ==
    LET r == Registrations(id)
    IN /\ r.subscriptions = {}
       /\ r.permissions = {}
       /\ r.methods = {}
       /\ r.schema = "none"

\* the instance, while it is in the table, tracks no resource
NoResources(id) == id \in DOMAIN plugins => plugins[id].resources = {}

\* the step is the return of `op` with Ok
ReturnsOk(op) ==
    /\ life_ret' # life_ret
    /\ life_ret'.op = op
    /\ life_ret'.result = "Ok"

\* C13: when disable_plugin(id) returns Ok the plugin has no event
\* subscription, no exposed method, no registered permission, no registered
\* config schema and no tracked resource.
C13_DisableUnloads ==
    [][ReturnsOk("disable_plugin") =>
          \E id \in {life_ret'.id} : (NoRegistrations(id) /\ NoResources(id))']_vars

C15_ShutdownUnloadsAll ==
    [][ReturnsOk("shutdown") =>
          (/\ dispatcher_handle = 0
           /\ ~call_disp.handle
           /\ \A id \in Plugins : NoRegistrations(id) /\ NoResources(id))']_vars

\* ------------------------------------------------------------------------
\* Health properties
\* ------------------------------------------------------------------------
\* C18: the status of to_health is Unhealthy exactly when the consecutive
\* failures are at least 3 or the success rate is below 0.80; otherwise it is
\* Degraded exactly when the P99 latency is above 5000 ms or the success rate
\* is below 0.95; otherwise it is Healthy.
C18_HealthByFirstRule ==
    LET unhealthy == \/ inst.consecutive_failures >= 3
                     \/ RateBelow(inst.window, 4, 5)
        degraded == \/ p99_latency_ms(inst.window) > 5000
                    \/ RateBelow(inst.window, 19, 20)
    IN inst_status = CASE unhealthy -> "Unhealthy"
                       [] ~unhealthy /\ degraded -> "Degraded"
                       [] OTHER -> "Healthy"

\* fewer than three failures in a row, a success rate below 0.80 and a P99
\* latency above 5000 ms: the second rule decides before the third
C18_Witness ==
    /\ inst.consecutive_failures < 3
    /\ RateBelow(inst.window, 4, 5)
    /\ p99_latency_ms(inst.window) > 5000
    /\ inst_status = "Unhealthy"

\* the number of failures at the end of a sequence of calls
RECURSIVE TrailingFailures(_)
TrailingFailures(s) ==
    IF s = << >> \/ s[Len(s)] = "success" THEN 0
    ELSE 1 + TrailingFailures(SubSeq(s, 1, Len(s) - 1))

\* C19: the consecutive-failures counter is the number of failures recorded
\* since the most recent success.
C19_ConsecutiveFailuresSinceSuccess ==
    inst.consecutive_failures = TrailingFailures(calls)

\* two failures, a success, then two failures
C19_Witness ==
    /\ Len(calls) >= 5
    /\ \E i \in 2..Len(calls) - 2 :
          /\ calls[i] = "success"
          /\ calls[i - 1] = "failure"
          /\ \A j \in i + 1..Len(calls) : calls[j] = "failure"
    /\ inst.consecutive_failures = 2

\* ------------------------------------------------------------------------
\* Refresh properties
\* ------------------------------------------------------------------------
\* C16: when the execution of a plugin fails during refresh_plugin, then at
\* the return the instance has one more error and one more consecutive failure
\* than when the execution failed and has its last error set, the caller has
\* an error, a plugin_error event has been emitted and the plugin is in the
\* table.
C16_RefreshFailureRecorded ==
    [][(rf.pc = "failed" /\ rf.executed /\ rf'.pc = "idle") =>
          /\ rf.id \in DOMAIN plugins'
          /\ plugins'[rf.id].health.error_count = rf.before.error_count + 1
          /\ plugins'[rf.id].health.consecutive_failures
                 = rf.before.consecutive_failures + 1
          /\ plugins'[rf.id].health.last_error # "none"
          /\ rf'.ipc = "error"
          /\ <<"plugin_error", rf.id>> \in ui_events']_vars

\* C17: a plugin is Running from the return of its first successful execution
\* on, and is never Running before that.
C17_RunningAfterFirstSuccess ==
    /\ [][(rf.pc = "store" /\ rf'.pc = "succeeded") =>
             plugins'[rf.id].state = "Running"]_vars
    /\ [](\A id \in DOMAIN plugins :
             plugins[id].state = "Running" => plugins[id].health.success_count > 0)

\* ------------------------------------------------------------------------
\* Fetch manager properties
\* ------------------------------------------------------------------------
\* C21: the active-request counter is always between 0 and 10; a
\* start_request that succeeds moves it from some n < 10 to n + 1, one that
\* returns TooManyRequests read a counter of at least 10 and leaves it alone,
\* and no step takes it below zero.
C21_CounterBetween0And10 ==
    /\ [](fm.active_requests \in 0..MAX_CONCURRENT_REQUESTS)
    /\ [][\A r \in FetchTasks :
            /\ (ft[r].pc = "raw_cas" /\ ft'[r].pc = "done") =>
                  /\ ft'[r].result = "Ok"
                  /\ fm.active_requests < MAX_CONCURRENT_REQUESTS
                  /\ fm'.active_requests = fm.active_requests + 1
            /\ (ft[r].pc = "raw_load" /\ ft'[r].pc = "done") =>
                  /\ ft'[r].result = "TooManyRequests"
                  /\ fm.active_requests >= MAX_CONCURRENT_REQUESTS
                  /\ fm'.active_requests = fm.active_requests
            /\ (ft[r].pc = "raw_load" /\ ft'[r].pc = "raw_cas") =>
                  fm.active_requests < MAX_CONCURRENT_REQUESTS]_vars
    /\ [][fm'.active_requests >= fm.active_requests - 1
            /\ (fm.active_requests = 0 => fm'.active_requests >= 0)]_vars

\* start_request has answered TooManyRequests at a full counter, and another
\* caller has been let in after an end_request
C21_Witness ==
    /\ ft[1].pc = "done" /\ ft[1].result = "TooManyRequests"
    /\ ft[2].pc = "done" /\ ft[2].result = "Ok"
    /\ fm.active_requests = MAX_CONCURRENT_REQUESTS

\* C22: every slot acquired for a fetch is released exactly once on every
\* exit path: the counter is the number of guards held, a request that has
\* returned released its slot once if it had one and never otherwise.
C22_SlotReleasedExactlyOnce ==
    /\ fm.active_requests
          = fetch_bg + Cardinality({r \in FetchTasks : ft[r].guard = "held"})
    /\ \A r \in FetchTasks :
          /\ ft[r].guard = "held" <=> ft[r].pc \in {"dns", "build", "send"}
          /\ ft[r].releases = IF ft[r].guard = "released" THEN 1 ELSE 0
          /\ ft[r].pc = "done" => ft[r].guard \in {"none", "released"}
    /\ (fetch_bg = 0 /\ \A r \in FetchTasks : ft[r].pc \in {"idle", "done"})
          => fm.active_requests = 0

\* one request was cancelled at an await and the other failed in DNS, both
\* after holding a slot, and no fetch is in flight
C22_Witness ==
    /\ ft[1].pc = "done" /\ ft[1].result = "Cancelled" /\ ft[1].releases = 1
    /\ ft[2].pc = "done" /\ ft[2].result = "DnsError" /\ ft[2].releases = 1
    /\ fetch_bg = 0
    /\ fm.active_requests = 0

\* C23: when both client constructors failed, no request is sent through any
\* client, and a request that got past the URL check, the slot and the DNS
\* check returns ClientNotInitialized.
C23_DisabledManagerRefuses ==
    fm.client = "none" =>
        \A r \in FetchTasks :
            /\ ft[r].sent = "none"
            /\ ft[r].pc = "done" =>
                  ft[r].result \in {"ClientNotInitialized", "InvalidUrl", "TooManyRequests",
                                    "DnsError", "PrivateIp", "Cancelled"}

\* ------------------------------------------------------------------------
\* Sandbox runtime properties
\* ------------------------------------------------------------------------
\* C24: once the interrupt flag is set during an evaluation the evaluation
\* returns, and a run whose evaluation was interrupted returns
\* ExecutionTimeout, not the error of the evaluation.
C24_InterruptedRunReportsTimeout ==
    /\ (rw.pc = "executing" /\ ic.interrupted) ~> (rw.pc # "executing")
    /\ [][(rw.pc = "reset" /\ rw'.pc = "idle" /\ rw.eval = "interrupted")
             => rw'.ret = "ExecutionTimeout"]_vars

\* the watchdog of the second run took its sleep branch, the evaluation was
\* interrupted and the run returned ExecutionTimeout
C24_Witness ==
    /\ rw.pc = "idle" /\ rw.run = 2
    /\ wdog[2].fired /\ wdog[2].pc = "done"
    /\ rw.eval = "interrupted"
    /\ rw.ret = "ExecutionTimeout"

Indexed(s) == \E p \in CachePlugins : plugin_keys[p].present /\ s \in plugin_keys[p].keys

\* C33: under any interleaving of the cache operations, once every call has
\* returned each entry of the cache is listed in the reverse index: no entry
\* survives untracked
C33_NoUntrackedEntry ==
    CacheIdle => \A s \in KeyStrings : cache[s] # NoValue => Indexed(s)

\* ------------------------------------------------------------------------
\* Extractor properties
\* ------------------------------------------------------------------------
\* C28: when extract has returned an error, the target directory holds what
\* it held when extract was called: its previous contents, or nothing if it
\* did not exist
C28_FailedExtractLeavesTarget ==
    (ex.pc = "done" /\ ex.result # "Ok") => target_dir = ex.before

\* ------------------------------------------------------------------------
\* Reload and event handler properties
\* ------------------------------------------------------------------------
\* the reload_plugin call of caller c returned Ok for a plugin that had its
\* handler registered when the call began
ReloadedWithHandler(c) ==
    rl[c].pc = "done" /\ rl[c].result = "Ok" /\ rl[c].handler

\* C29: no step of reload_plugin changes the registered handlers, and once a
\* reload of a plugin that had a handler has returned Ok, every event the
\* dispatcher takes up that the plugin is subscribed to (and did not emit
\* itself) is handed to that handler
C29_ReloadKeepsHandler ==
    /\ [][\A c \in ReloadCallers : rl'[c] # rl[c] => handlers' = handlers]_vars
    /\ \A t \in DispatcherIds :
          (/\ ReloadedWithHandler(1)
           /\ dtask[t].pc = "subs"
           /\ rl[1].id \in get_subscribers(dtask[t].d.event.event_name)
           /\ dtask[t].d.event.source_plugin # rl[1].id)
              ~> (dtask[t].d.current = rl[1].id)

\* p2, which had a handler and no subscription, was reloaded with a manifest
\* that subscribes to the events of p1, and its handler is now called with
\* such an event
C29_Witness ==
    /\ ReloadedWithHandler(1) /\ rl[1].id = "p2"
    /\ rl[1].touched
    /\ plugins["p2"].manifest = ManifestA
    /\ \E t \in DispatcherIds :
          /\ dtask[t].d.current = "p2"
          /\ dtask[t].d.event.event_name = PluginEventName("p1", GoodAction)

\* what the registries hold for plugin id once manifest m is registered in
\* full: the valid event names, the parsed permissions, the exposed methods
\* and the parsed schema
RegistrationsOf(id, m) ==
    [subscriptions |-> {n \in m.subscribed_events : is_valid_event_name(n)},
     permissions |-> {ParsePermission(str) : str \in m.permissions} \ {NoPermission},
     methods |-> {<<id, x>> : x \in m.exposed_methods},
     schema |-> IF m.config_schema \in {"absent", "null"} THEN "none"
                ELSE ParseSchema(m.config_schema)]

\* what a dispatch, a permission check, a method look-up or a configuration
\* validation finds registered for plugin id at this moment
Observed(id) ==
    [subscriptions |-> Registrations(id).subscriptions,
     permissions |-> Registrations(id).permissions,
     methods |-> Registrations(id).methods,
     schema |-> Registrations(id).schema]

\* the reload_plugin call of caller c has validated the new manifest and not
\* returned
Switching(c) == rl[c].pc \notin {"idle", "read", "done"}

\* C34: while a reload whose validation succeeded is switching, the
\* registries hold for the plugin either all that its old manifest declares
\* or all that the new one declares
C34_ReloadSwitchIsAtomic ==
    \A c \in ReloadCallers :
        (Switching(c) /\ rl[c].id \in DOMAIN plugins)
            => Observed(rl[c].id) \in {RegistrationsOf(rl[c].id, plugins[rl[c].id].manifest),
                                      RegistrationsOf(rl[c].id, rl[c].new_manifest)}

\* the last call of the manager that returned is a successful
\* disable_plugin(id): the plugin has been disabled and not enabled since
DisableReturned(id) ==
    life_ret.op = "disable_plugin" /\ life_ret.id = id /\ life_ret.result = "Ok"

\* C36: once disable_plugin(id) has returned, no execution of id stores
\* cached data or a success record for id, not even one that was in flight
\* when the plugin was disabled
C36_NoStoreAfterDisable ==
    [][(rf.pc = "store" /\ rf'.pc = "succeeded") => ~DisableReturned(rf.id)]_vars

\* ------------------------------------------------------------------------
\* Retry executor properties
\* ------------------------------------------------------------------------
\* every call of the operation made so far failed with a retryable error
KeepsFailing == \A i \in 1..Len(rc.outcomes) : rc.outcomes[i] = "Retryable"

\* C30: the operation is never called more than max_retries + 1 times and
\* never retried more than max_retries times; when all its calls failed with a
\* retryable error, execute_with_context returns MaxRetriesExceeded, after
\* exactly max_retries + 1 calls
C30_CalledMaxRetriesPlusOneTimes ==
    /\ Len(rc.outcomes) <= retry_config.max_retries + 1
    /\ rc.attempt <= retry_config.max_retries
    /\ retry_stats.total_retries <= retry_config.max_retries
    /\ (rc.pc = "done" /\ KeepsFailing)
          => /\ rc.result = "MaxRetriesExceeded"
             /\ Len(rc.outcomes) = retry_config.max_retries + 1
    /\ (rc.pc # "done" /\ KeepsFailing) => rc.result = "None"

\* an executor with three retries gave up after the fourth failing call
C30_Witness ==
    /\ retry_config.max_retries = 3
    /\ rc.pc = "done" /\ rc.result = "MaxRetriesExceeded"
    /\ rc.outcomes = <<"Retryable", "Retryable", "Retryable", "Retryable">>
    /\ retry_stats.total_retries = 3 /\ retry_stats.failed_after_retries = 1

\* ------------------------------------------------------------------------
\* Rate limiter properties
\* ------------------------------------------------------------------------
\* the call of c makes its plugin-level test in this step
PluginTested(c) == rq[c].pc = "plugin" /\ rq'[c].pc = "done"

\* C31: a request that has passed the global limit is tested against a
\* limiter made for its own plugin and changes no other limiter, and it is
\* allowed whenever that limiter has a cell left, whatever the requests of the
\* other plugins did
C31_PluginLimitersIsolated ==
    [][\A c \in RateCallers :
          PluginTested(c) =>
             /\ limiters[rq[c].limiter].plugin = rq[c].plugin
             /\ \A l \in 1..Len(limiters) :
                    l # rq[c].limiter => limiters'[l] = limiters[l]
             /\ limiters[rq[c].limiter].tokens > 0 => rq'[c].result \in {"Ok", "Ready"}
             /\ rq'[c].result = "RateLimited"
                    => limiters[rq[c].limiter].tokens = 0]_vars

\* plugin a used its burst up and had a request rejected, and a request of
\* plugin b was allowed
C31_Witness ==
    /\ plugin_limiters["a"] # NoLimiter /\ plugin_limiters["b"] # NoLimiter
    /\ limiters[plugin_limiters["a"]].throttled_requests >= 1
    /\ limiters[plugin_limiters["a"]].tokens = 0
    /\ limiters[plugin_limiters["b"]].total_requests = 1
    /\ \E c \in RateCallers :
          rq[c].pc = "done" /\ rq[c].op = "check" /\ rq[c].plugin = "b" /\ rq[c].result = "Ok"

\* ------------------------------------------------------------------------
\* Event bus lock properties
\* ------------------------------------------------------------------------
\* the locks among subscriptions, handlers and stats that task h holds
LocksHeldBy(h) == {l \in DOMAIN bus_locks : bus_locks[l] = h}

\* C32: no task of the event bus is suspended at an await with a lock of
\* subscriptions, handlers or stats in its hands: a caller that waits for
\* the handlers or the stats lock holds none, and the dispatcher holds none
\* while a handler it invoked runs
C32_NoLockHeldAcrossAwait ==
    /\ \A c \in BusCallers :
          bc[c].pc \in {"handlers", "stats"} => LocksHeldBy(c) = {}
    /\ \A t \in DispatcherIds :
          dtask[t].d.current # NoPlugin => LocksHeldBy(DispatcherHolder(t)) = {}
\* the reload_plugin call of caller c and every uninstall_plugin call have
\* returned
BothReturned(c) == rl[c].pc = "done" /\ un.pc = "idle"

\* C38: after a reload_plugin and an uninstall_plugin of the same plugin have
\* both returned, a plugin that is absent from the table has no event
\* subscription, permission, exposed method or config schema registered
C38_TableAndRegistriesAgree ==
    \A c \in ReloadCallers :
        (BothReturned(c) /\ rl[c].id \in Plugins /\ rl[c].id \notin DOMAIN plugins)
            => NoRegistrations(rl[c].id)

\* the run in progress ends within its own timeout: its interrupt handler has
\* not found the timeout exceeded and its own watchdog has not taken the sleep
\* branch
WithinOwnTimeout == ~rw.overtime /\ ~wdog[rw.run].fired

\* C39: a watchdog that was stopped after its evaluation finished never sets
\* the interrupt flag while a later evaluation runs, and a run that ends
\* within its own timeout does not return ExecutionTimeout
C39_WatchdogInterruptsOwnRunOnly ==
    [][/\ \A k \in RunIds :
            (wdog[k].stop /\ wdog[k].pc = "interrupt" /\ wdog'[k].pc = "done")
                => ~(rw.pc = "executing" /\ rw.run # k)
       /\ (rw.pc = "reset" /\ rw'.pc = "idle" /\ WithinOwnTimeout)
            => rw'.ret # "ExecutionTimeout"]_vars

\* the permits of the semaphore that are taken
PermitsTaken == MAX_TIMERS - timer_permits

\* C40: no timer id is in pending_tokens and in timers at once, and the ids of
\* the two maps together are never more than the permits taken, which are
\* never more than MAX_TIMERS, whatever the order of try_acquire, register,
\* cancel, complete and cancel_all
C40_TimerMapsDisjointAndBounded ==
    /\ pending_tokens \cap timers = {}
    /\ Cardinality(pending_tokens \cup timers) <= PermitsTaken
    /\ PermitsTaken \in 0..MAX_TIMERS

\* every permit is taken: the ids of the two maps are MAX_TIMERS, a timer
\* waits in pending_tokens beside the registered ones, one timer was removed
\* by cancel and its slot taken again
C40_Witness ==
    /\ timer_permits = 0
    /\ pending_tokens # {}
    /\ Cardinality(pending_tokens \cup timers) = MAX_TIMERS
    /\ \E id \in TimerIds : tm[id].cancelRan /\ tm[id].permit = "released"

====
